---- MODULE Spec2Model ----
(***************************************************************************)
(* timsCompare: the method loader (DataLoaderService), its scoped          *)
(* parameter lookup, the per-segment inheritance loop, the derived fields  *)
(* and the re-resolution of additional parameters.                         *)
(*                                                                         *)
(* Python values are modelled as records [kind, v]:                        *)
(*   None          [kind |-> "None", v |-> <<>>]                           *)
(*   str  s        [kind |-> "str",  v |-> <<s>>]                          *)
(*   list of str   [kind |-> "list", v |-> the entries]                    *)
(* A dict is a function whose DOMAIN is its key set.  An XML element is a  *)
(* record with its tag, the attributes the loader reads and its children   *)
(* in document order.                                                      *)
(***************************************************************************)
EXTENDS Integers, Sequences, FiniteSets, TLC

VARIABLES
    doc,                  \* the parsed method file: [method, instrument] elements
    pc,                   \* position of the caller: idle, loading, built, loaded, failed, scope
    dataset,              \* the Dataset load_dataset_from_folder is building
    seg_pos,              \* number of segment elements already handled by the loop
    last_end_time,        \* loop local of load_dataset_from_folder
    last_segment_params,  \* loop local: the mapping handed to the next segment
    returned_params,      \* the mapping each _parse_and_populate_segment call received and returned
    datasets,             \* timsCompareApp.datasets
    error,                \* the exception load_dataset_from_folder raised, if any
    calls,                \* the parse_additional_parameters calls made so far
    before_call,          \* the segments' mappings before the last such call
    query,                \* arguments of the last _parse_parameters_for_scope query
    result,               \* what that query returned
    lookup,               \* the last Dataset.get_parameter_value call and its result
    report                \* the last ReportGeneratorService.generate_report call and its outcome

vars == <<doc, pc, dataset, seg_pos, last_end_time, last_segment_params,
          returned_params, datasets, error, calls, before_call, query, result, lookup, report>>

(***************************************************************************)
(* Python values                                                           *)
(***************************************************************************)
None == [kind |-> "None", v |-> <<>>]
Str(s) == [kind |-> "str", v |-> <<s>>]
IntVal(n) == [kind |-> "int", v |-> <<n>>]
List(seq) == [kind |-> "list", v |-> seq]

IsList(val) == val.kind = "list"
IsStr(val) == val.kind = "str"

\* dict.get(key): None for a missing key
Get(d, key) == IF key \in DOMAIN d THEN d[key] ELSE None

\* dict.update(other): the keys of other win
Update(d, other) ==
    [k \in (DOMAIN d) \cup (DOMAIN other) |-> IF k \in DOMAIN other THEN other[k] ELSE d[k]]

EmptyDict == [k \in {} |-> None]

\* str.lower() on the attribute and context strings of the model
Lower(s) ==
    CASE s = "Positive" -> "positive"
      [] s = "Negative" -> "negative"
      [] s = "ESI" -> "esi"
      [] s = "APCI" -> "apci"
      [] OTHER -> s

(***************************************************************************)
(* XML elements                                                            *)
(***************************************************************************)
NoChildren == <<>>

Element(tag, permname, value, polarity, source, endtime, children) ==
    [tag |-> tag, permname |-> permname, value |-> value, polarity |-> polarity,
     source |-> source, endtime |-> endtime, children |-> children]

\* Python's None where an element is expected
NoElement == Element("None", "", <<>>, "", "", <<>>, NoChildren)

\* <entry value="..."/>
Entry(val) == Element("entry", "", <<val>>, "", "", <<>>, NoChildren)
\* <entry>text</entry>: no value attribute
TextEntry == Element("entry", "", <<>>, "", "", <<>>, NoChildren)
\* <para_xxx permname="p" value="val"/>
Param(p, val) == Element("para", p, <<val>>, "", "", <<>>, NoChildren)
\* <para_vec_xxx permname="p"><entry value=.../>...</para_vec_xxx>
ParamVec(p, vals) ==
    Element("para", p, <<>>, "", "", <<>>, [i \in 1..Len(vals) |-> Entry(vals[i])])
\* a vector whose entries may lack the value attribute: <<val>> or <<>> per entry
ParamEntries(p, entries) ==
    Element("para", p, <<>>, "", "", <<>>,
            [i \in 1..Len(entries) |-> Element("entry", "", entries[i], "", "", <<>>, NoChildren)])
\* <dependent polarity=".." source="..">...</dependent>; "" is a missing attribute
Dependent(polarity, source, children) ==
    Element("dependent", "", <<>>, polarity, source, <<>>, children)
\* <segment endtime="..">...</segment>; <<>> is a missing attribute
SegmentEl(endtime, children) ==
    Element("segment", "", <<>>, "", "", endtime, children)
Timetable(segs) == Element("timetable", "", <<>>, "", "", <<>>, segs)
Method(children) == Element("method", "", <<>>, "", "", <<>>, children)
Instrument(children) == Element("instrument", "", <<>>, "", "", <<>>, children)

Range(seq) == {seq[i] : i \in 1..Len(seq)}

RECURSIVE Concat(_)
Concat(seqs) == IF seqs = <<>> THEN <<>> ELSE Head(seqs) \o Concat(Tail(seqs))

\* the descendants of an element in document order (Element.iter without the root)
RECURSIVE Descendants(_)
Descendants(e) ==
    Concat([i \in 1..Len(e.children) |-> <<e.children[i]>> \o Descendants(e.children[i])])

\* element.find(".//*[@permname='p']"): the first descendant carrying the permname
FindPermname(root, p) ==
    LET hits == SelectSeq(Descendants(root), LAMBDA e : e.permname = p)
    IN  IF hits = <<>> THEN NoElement ELSE hits[1]

\* element.iter('dependent')
IterDependent(root) == SelectSeq(Descendants(root), LAMBDA e : e.tag = "dependent")

\* root.findall('./method/qtofimpactemacq/timetable/segment')
SegmentElements(method) ==
    IF method = NoElement THEN <<>>
    ELSE LET tables == SelectSeq(method.children, LAMBDA e : e.tag = "timetable")
         IN  Concat([i \in 1..Len(tables) |->
                        SelectSeq(tables[i].children, LAMBDA e : e.tag = "segment")])

(***************************************************************************)
(* The method folder: the method file and the two auxiliary stores         *)
(***************************************************************************)
\* an auxiliary sqlite store: not found by _find_file, not readable by
\* read_sql_query (no such table, no database), or the rows of its table
MissingStore == [kind |-> "missing", rows |-> <<>>]
UnreadableStore == [kind |-> "unreadable", rows |-> <<>>]
Table(rows) == [kind |-> "table", rows |-> rows]
\* a table whose named columns hold text instead of numbers (SQLite does not
\* enforce the declared type of a column), the same text in every row
TextTable(rows, text_columns) ==
    [kind |-> "text_table", rows |-> rows, text_columns |-> text_columns]

\* a row of DiaWindowsSpecification
DiaRow(type, cycle_id, k0_start, k0_end, isolation_mz, isolation_width) ==
    [Type |-> type, CycleId |-> cycle_id, OneOverK0Start |-> k0_start,
     OneOverK0End |-> k0_end, IsolationMz |-> isolation_mz,
     IsolationWidth |-> isolation_width]

\* the row of Template
TemplateRow(insert_ms_scan, number_of_slices, isolation_mz, slope, origin, width_mz) ==
    [insert_ms_scan |-> insert_ms_scan, number_of_slices |-> number_of_slices,
     isolation_mz |-> isolation_mz, slope |-> slope, origin |-> origin,
     width_mz |-> width_mz]

\* a folder: file is "ok" for a well-formed method file, "missing" when _find_file
\* finds none, "malformed" when ET.parse raises
Folder(file, method, instrument, dia_store, diag_store) ==
    [file |-> file, method |-> method, instrument |-> instrument,
     dia_store |-> dia_store, diag_store |-> diag_store]

\* a folder with a well-formed method file and no auxiliary store
MethodOnly(method, instrument) ==
    Folder("ok", method, instrument, MissingStore, MissingStore)

(***************************************************************************)
(* The parameter catalogue (AppConfig)                                     *)
(***************************************************************************)
PARAMETER_DEPENDENCY_MAP ==
    [p \in {"IMS_imeX_RampStart", "IMS_imeX_RampEnd", "IMS_imeX_RampTime",
            "IMS_imeX_AccumulationTime"} |-> "IMS_imeX_Mode"]

\* permnames of the definitions; Instrument_Model stands for the definitions
\* whose USE element says 'instrument'
MethodPermnames ==
    <<"Calibration_MarkSegment", "Collision_QuenchTime_Set", "IMSICC_Mode",
      "IMSICC_Target", "IMS_imeX_AccumulationTime", "IMS_imeX_DutyCycleLock",
      "IMS_imeX_Mode", "IMS_imeX_RampTime", "MSMS_Pasef_NumRampsPerCycle",
      "Mode_IonPolarity", "Mode_ScanMode", "IMS_PolygonFilter_Mass",
      "IMS_PolygonFilter_Mobility">>
InstrumentPermnames == <<"Instrument_Model">>

Definition(p, location) ==
    [permname |-> p, location |-> location,
     lookup_driven_by |-> IF p \in DOMAIN PARAMETER_DEPENDENCY_MAP
                          THEN PARAMETER_DEPENDENCY_MAP[p] ELSE ""]

\* AppConfig.all_definitions
all_definitions ==
    [i \in 1..Len(MethodPermnames) |-> Definition(MethodPermnames[i], "method")]
    \o [i \in 1..Len(InstrumentPermnames) |-> Definition(InstrumentPermnames[i], "instrument")]

Permnames(defs) == {defs[i].permname : i \in 1..Len(defs)}

\* all_param_defs_map.get(permname, {}): an unknown permname has no driver and
\* the default location
FullConfig(p) ==
    IF p \in Range(InstrumentPermnames) THEN Definition(p, "instrument")
    ELSE Definition(p, "method")

\* value_map of Mode_ScanMode: scan-mode code -> workflow name
scan_mode_map ==
    [c \in {"0", "6", "9", "11"} |->
        CASE c = "0" -> "MS"
          [] c = "6" -> "PASEF"
          [] c = "9" -> "dia-PASEF"
          [] c = "11" -> "diagonal-PASEF"]

\* value_map of Mode_IonPolarity
polarity_map == [c \in {"0", "1"} |-> IF c = "0" THEN "Positive" ELSE "Negative"]

\* AppConfig.parameter_definitions: the default view of every workflow
GeneralView ==
    <<"calc_scan_mode", "Mode_ScanMode", "Mode_IonPolarity",
      "calc_segment_start_time", "calc_segment_end_time", "IMSICC_Mode", "IMSICC_Target">>
TimsView ==
    <<"IMS_imeX_Mode", "IMS_imeX_RampTime", "IMS_imeX_AccumulationTime",
      "IMS_imeX_DutyCycleLock", "calc_cycle_time">>
parameter_definitions ==
    [w \in {"__GENERAL__", "MS", "PASEF", "dia-PASEF", "diagonal-PASEF"} |->
        CASE w = "__GENERAL__" -> GeneralView
          [] w = "MS" -> <<"Collision_QuenchTime_Set">>
          [] w = "PASEF" -> TimsView \o <<"MSMS_Pasef_NumRampsPerCycle">>
          [] w = "dia-PASEF" -> TimsView
          [] w = "diagonal-PASEF" -> TimsView]

\* str(value) looked up in a value map; "" when the map has no entry (Python's None)
MapGet(map, val) == IF IsStr(val) /\ val.v[1] \in DOMAIN map THEN map[val.v[1]] ELSE ""

(***************************************************************************)
(* ScopeResolver: _get_value_from_element and _parse_parameters_for_scope  *)
(***************************************************************************)
NoIndex == -1

\* ime_x_mode_to_index.get(str(driver_value))
ime_x_mode_to_index(val) ==
    IF ~IsStr(val) THEN NoIndex
    ELSE CASE val.v[1] = "0" -> 0
           [] val.v[1] = "1" -> 1
           [] val.v[1] = "2" -> 2
           [] val.v[1] = "3" -> 3
           [] val.v[1] = "4" -> 4
           [] OTHER -> NoIndex

\* the 'value' attribute of an element, or None
AttrValue(e) == IF e.value = <<>> THEN None ELSE Str(e.value[1])

\* a None inside a Python list of strings
NoneEntry == "<None>"

get_value_from_element(element, entry_index) ==
    IF element = NoElement THEN None
    ELSE IF entry_index # NoIndex
    THEN IF entry_index < Len(element.children)
         THEN AttrValue(element.children[entry_index + 1])
         ELSE None
    ELSE IF Len(element.children) > 0
    THEN IF element.children[1].value # <<>>
         THEN List([i \in 1..Len(element.children) |->
                      IF element.children[i].value = <<>> THEN NoneEntry
                      ELSE element.children[i].value[1]])
         ELSE List([i \in 1..Len(element.children) |-> NoneEntry])
    ELSE AttrValue(element)

\* rank of a dependent scope for the polarity / source context: 3, 2, 1, or 0 (no match)
ScopeRank(dep, ion_polarity, ion_source) ==
    LET pol_match == dep.polarity # "" /\ ion_polarity # ""
                     /\ Lower(dep.polarity) = Lower(ion_polarity)
        src_match == dep.source # "" /\ ion_source # ""
                     /\ Lower(dep.source) = Lower(ion_source)
    IN  IF pol_match /\ src_match THEN 3
        ELSE IF pol_match THEN 2
        ELSE IF src_match THEN 1
        ELSE 0

\* the loop that fills dependent_scopes: insert(0, ..) for rank 3, append otherwise
RECURSIVE CollectScopes(_, _, _, _)
CollectScopes(deps, ion_polarity, ion_source, acc) ==
    IF deps = <<>> THEN acc
    ELSE LET rank == ScopeRank(Head(deps), ion_polarity, ion_source)
             item == [rank |-> rank, scope |-> Head(deps)]
             next == IF rank = 3 THEN <<item>> \o acc
                     ELSE IF rank \in {1, 2} THEN Append(acc, item)
                     ELSE acc
         IN  CollectScopes(Tail(deps), ion_polarity, ion_source, next)

\* dependent_scopes.sort(key=rank, reverse=True): a stable sort
SortScopesMutant(scopes) ==
    SelectSeq(scopes, LAMBDA s : s.rank = 2) \o SelectSeq(scopes, LAMBDA s : s.rank = 3)
    \o SelectSeq(scopes, LAMBDA s : s.rank = 1)

SortScopes(scopes) ==
    SelectSeq(scopes, LAMBDA s : s.rank = 3) \o SelectSeq(scopes, LAMBDA s : s.rank = 2)
    \o SelectSeq(scopes, LAMBDA s : s.rank = 1)

\* the first ranked scope that holds the parameter
FirstInScopes(scopes, p) ==
    LET hits == SelectSeq(scopes, LAMBDA s : FindPermname(s.scope, p) # NoElement)
    IN  IF hits = <<>> THEN NoElement ELSE FindPermname(hits[1].scope, p)

\* search_root of find_and_get_value
SearchRootMutant(location, method_scope, instrument_scope) ==
    IF location = "instrument" /\ instrument_scope # NoElement
    THEN instrument_scope ELSE method_scope

SearchRoot(location, method_scope, instrument_scope) ==
    IF location = "instrument" THEN instrument_scope ELSE method_scope

\* the last two searches of find_and_get_value: the search root itself, then the
\* instrument scope for a method parameter
FallbackElement(found_element, p, location, search_root, instrument_scope) ==
    IF found_element # NoElement THEN found_element
    ELSE IF FindPermname(search_root, p) # NoElement THEN FindPermname(search_root, p)
    ELSE IF location = "method" /\ instrument_scope # NoElement
    THEN FindPermname(instrument_scope, p)
    ELSE NoElement

\* the element find_and_get_value reads the value from
FoundElement(p, location, search_root, instrument_scope, ion_polarity, ion_source) ==
    FallbackElement(
        FirstInScopes(SortScopes(CollectScopes(IterDependent(search_root),
                                               ion_polarity, ion_source, <<>>)), p),
        p, location, search_root, instrument_scope)

\* entry_index of search_config: the index the driver's value selects
EntryIndex(p, current_results) ==
    IF FullConfig(p).lookup_driven_by # ""
    THEN ime_x_mode_to_index(Get(current_results, FullConfig(p).lookup_driven_by))
    ELSE NoIndex

SearchIn(p, location, search_root, current_results, instrument_scope, ion_polarity, ion_source) ==
    IF search_root = NoElement THEN None
    ELSE get_value_from_element(
             FoundElement(p, location, search_root, instrument_scope,
                          ion_polarity, ion_source),
             EntryIndex(p, current_results))

find_and_get_value(p, current_results, method_scope, instrument_scope, ion_polarity, ion_source) ==
    SearchIn(p, FullConfig(p).location,
             SearchRoot(FullConfig(p).location, method_scope, instrument_scope),
             current_results, instrument_scope, ion_polarity, ion_source)

\* the order in which _parse_parameters_for_scope resolves the requested list
ResolveOrderMutant(param_info) == param_info

ResolveOrder(param_info) ==
    SelectSeq(param_info, LAMBDA p : FullConfig(p).lookup_driven_by = "")
    \o SelectSeq(param_info, LAMBDA p : FullConfig(p).lookup_driven_by # "")

\* results[permname] = value unless the value is None
Store(results, p, value) ==
    IF value # None THEN Update(results, [k \in {p} |-> value]) ELSE results

RECURSIVE ResolveAll(_, _, _, _, _, _)
ResolveAll(order, results, method_scope, instrument_scope, ion_polarity, ion_source) ==
    IF order = <<>> THEN results
    ELSE ResolveAll(Tail(order),
                    Store(results, Head(order),
                          find_and_get_value(Head(order), results, method_scope,
                                             instrument_scope, ion_polarity, ion_source)),
                    method_scope, instrument_scope, ion_polarity, ion_source)

parse_parameters_for_scope(method_scope, instrument_scope, param_info, ion_polarity, ion_source) ==
    ResolveAll(ResolveOrder(param_info), EmptyDict, method_scope, instrument_scope,
               ion_polarity, ion_source)

\* the values of the variables before anything was raised, built or asked
NoQuery == [param_info |-> <<>>, ion_polarity |-> "", ion_source |-> ""]
NoDataset == [segments |-> <<>>, active_segment_index |-> 0, default_params |-> <<>>]
NoError == [type |-> "", message |-> ""]
\* no get_parameter_value call yet; segment_index <<>> is None
NoLookup == [called |-> FALSE, permname |-> "", segment_index |-> <<>>,
             segments |-> <<>>, active_segment_index |-> 0, value |-> None]

\* no generate_report call yet
NoReport == [called |-> FALSE, export_format |-> "", include_plot |-> FALSE,
             selected_segment_indices |-> <<>>, error |-> NoError]

(***************************************************************************)
(* Numbers and their text                                                  *)
(***************************************************************************)
\* the strings float() and int() accept, among the strings of the model: the
\* whole numbers of NumRange
NumRange == -5..200
NumberTable == [n \in NumRange |-> ToString(n)]
NumericStrings == {NumberTable[n] : n \in NumRange}
NumberOf(s) == CHOOSE n \in NumRange : NumberTable[n] = s

\* f"{t:.2f}" of a whole number
Format2f(t) == ToString(t) \o ".00"

\* f"{t:.1f}" and f"{t:.4f}" of a whole number
Format1f(t) == ToString(t) \o ".0"
Format4f(t) == ToString(t) \o ".0000"

\* f"{t:.2f}" of half a whole number that is not negative
FormatHalf2f(twice) ==
    ToString(twice \div 2) \o (IF twice % 2 = 0 THEN ".00" ELSE ".50")

\* f"{ms / 1000:.2f} s" for a whole number of milliseconds that is a multiple of 10
TwoDigits(n) == IF n < 10 THEN "0" \o ToString(n) ELSE ToString(n)
FormatSeconds(ms) == ToString(ms \div 1000) \o "." \o TwoDigits((ms % 1000) \div 10) \o " s"

(***************************************************************************)
(* DerivedCalculator: _perform_calculations and _apply_conditional_logic   *)
(***************************************************************************)
\* the keys that start with "calc_"
CalcKeys ==
    {"calc_scan_mode", "calc_segment_start_time", "calc_segment_end_time",
     "calc_advanced_ce_ramping_display_list", "calc_ce_ramping_start",
     "calc_ce_ramping_end", "calc_msms_stepping_display_list", "calc_cycle_time",
     "calc_ms1_scans", "calc_ramps", "calc_steps", "calc_mz_width",
     "calc_scan_area_mz", "calc_scan_area_im"}
StartsWithCalc(key) == key \in CalcKeys

\* d[key] = value
Set(d, key, value) == Update(d, [k \in {key} |-> value])
\* del d[key] for every key of the set
Without(d, keys) == [k \in (DOMAIN d) \ keys |-> d[k]]

\* float(x or 0) / int(x or 0): [ok, n]; not ok is the ValueError or TypeError
\* the callers catch
NumberOr0(val) ==
    IF val = None \/ val = Str("") \/ val = List(<<>>) THEN [ok |-> TRUE, n |-> 0]
    ELSE IF IsStr(val) /\ val.v[1] \in NumericStrings
    THEN [ok |-> TRUE, n |-> NumberOf(val.v[1])]
    ELSE [ok |-> FALSE, n |-> 0]

\* _calculate_energy_ramping_params; the catalogue of the model resolves none of
\* the Energy_Ramping_* parameters, so their lookups give None
calculate_energy_ramping_params(params) ==
    LET is_advanced == Get(params, "Energy_Ramping_Advanced_Settings_Active") = Str("1")
        p1 == Set(params, "calc_advanced_ce_ramping_display_list", None)
        ce_values == Get(params, "Energy_Ramping_Collision_Energy_StartEnd")
        mobility_values == Get(params, "Energy_Ramping_Mobility_StartEnd")
        pair_ok == IsList(ce_values) /\ Len(ce_values.v) >= 2
                   /\ IsList(mobility_values) /\ Len(mobility_values.v) >= 2
        start == IF pair_ok THEN Str(ce_values.v[1] \o " @ " \o mobility_values.v[1])
                 ELSE Str("N/A")
        end == IF pair_ok THEN Str(ce_values.v[2] \o " @ " \o mobility_values.v[2])
               ELSE Str("N/A")
    IN  IF ~is_advanced
        THEN Set(Set(p1, "calc_ce_ramping_start", start), "calc_ce_ramping_end", end)
        ELSE Set(Set(Set(p1, "calc_advanced_ce_ramping_display_list",
                         List(<<"No advanced values found">>)),
                     "calc_ce_ramping_start", Str("N/A")),
                 "calc_ce_ramping_end", Str("N/A"))

\* _calculate_msms_stepping_params; no stepping vector is in the catalogue of the
\* model, so an active stepping flag finds no details
calculate_msms_stepping_params(params) ==
    Set(params, "calc_msms_stepping_display_list", None)

\* the decimal digits of a number that is not negative
RECURSIVE Digits(_)
Digits(n) == IF n < 10 THEN <<n>> ELSE Digits(n \div 10) \o <<n % 10>>

\* [float(v) for v in val if v is not None]: [ok, values], not ok is the ValueError.
\* A list gives its entries; a str is iterated character by character, and the
\* strings of the model that are not whole numbers hold a character float() rejects
FloatList(val) ==
    IF IsList(val)
    THEN LET kept == SelectSeq(val.v, LAMBDA e : e # NoneEntry)
         IN  [ok |-> \A i \in 1..Len(kept) : kept[i] \in NumericStrings,
              values |-> [i \in 1..Len(kept) |->
                            IF kept[i] \in NumericStrings THEN NumberOf(kept[i]) ELSE 0]]
    ELSE IF val.v[1] = "" THEN [ok |-> TRUE, values |-> <<>>]
    ELSE IF val.v[1] \in NumericStrings /\ NumberOf(val.v[1]) >= 0
    THEN [ok |-> TRUE, values |-> Digits(NumberOf(val.v[1]))]
    ELSE [ok |-> FALSE, values |-> <<>>]

\* segment.pasef_polygon_data = None
NoPolygon == [mass |-> <<>>, mobility |-> <<>>]

\* the two lists, once both values are there
PolygonOfLists(mass_values, mobility_values) ==
    IF mass_values.ok /\ mobility_values.ok
       /\ mass_values.values # <<>> /\ mobility_values.values # <<>>
    THEN [mass |-> mass_values.values, mobility |-> mobility_values.values]
    ELSE NoPolygon

PolygonMutant(params) ==
    IF Get(params, "IMS_PolygonFilter_Mass") # None
       /\ Get(params, "IMS_PolygonFilter_Mobility") # None
    THEN PolygonOfLists(FloatList(Get(params, "IMS_PolygonFilter_Mobility")),
                        FloatList(Get(params, "IMS_PolygonFilter_Mass")))
    ELSE NoPolygon

\* the polygon part of _process_pasef_data: segment.pasef_polygon_data
pasef_polygon_data(params) ==
    IF Get(params, "IMS_PolygonFilter_Mass") # None
       /\ Get(params, "IMS_PolygonFilter_Mobility") # None
    THEN PolygonOfLists(FloatList(Get(params, "IMS_PolygonFilter_Mass")),
                        FloatList(Get(params, "IMS_PolygonFilter_Mobility")))
    ELSE NoPolygon

\* the cycle-time part of _process_pasef_data
process_pasef_data(params) ==
    LET num_ramps == NumberOr0(Get(params, "MSMS_Pasef_NumRampsPerCycle"))
        ramp_time == NumberOr0(Get(params, "IMS_imeX_RampTime"))
        quench_time == NumberOr0(Get(params, "Collision_QuenchTime_Set"))
        total_scans == num_ramps.n + 1
    IN  IF num_ramps.ok /\ ramp_time.ok /\ quench_time.ok
        THEN Set(params, "calc_cycle_time",
                 Str(FormatSeconds(total_scans * (ramp_time.n + quench_time.n))))
        ELSE Set(params, "calc_cycle_time", Str("N/A"))

initialize_dia_params_as_na(params) ==
    LET na == [k \in {"calc_ms1_scans", "calc_ramps", "calc_steps", "calc_mz_width",
                      "calc_scan_area_mz", "calc_scan_area_im", "calc_cycle_time"}
                 |-> Str("N/A")]
    IN  Update(params, na)

\* the largest and the smallest number of a non-empty set
Max(S) == CHOOSE x \in S : \A y \in S : y <= x
Min(S) == CHOOSE x \in S : \A y \in S : x <= y

\* column c of the rows
Column(rows, c) == {rows[i][c] : i \in 1..Len(rows)}

\* rows['CycleId'].value_counts().max(): the largest number of rows of one cycle
LargestCycle(rows) ==
    Max({Cardinality({i \in 1..Len(rows) : rows[i].CycleId = c}) :
            c \in Column(rows, "CycleId")})

\* rows.loc[rows['IsolationMz'].idxmin()] and idxmax(): the first row with the
\* smallest and with the largest isolation m/z
MinMzRow(rows) ==
    rows[Min({i \in 1..Len(rows) : rows[i].IsolationMz = Min(Column(rows, "IsolationMz"))})]
MaxMzRow(rows) ==
    rows[Min({i \in 1..Len(rows) : rows[i].IsolationMz = Max(Column(rows, "IsolationMz"))})]

CycleTimeMutant(params, total_scans) ==
    LET ramp_time_ms == NumberOr0(Get(params, "IMS_imeX_RampTime"))
        quench_time == NumberOr0(Get(params, "Collision_QuenchTime_Set"))
    IN  IF ramp_time_ms.ok /\ quench_time.ok
        THEN Str(FormatSeconds(total_scans * ramp_time_ms.n))
        ELSE Str("N/A")

\* the cycle time of dia-PASEF and of diagonal-PASEF:
\* total_scans * (ramp_time + quench_time) / 1000, "N/A" on a ValueError or TypeError
cycle_time(params, total_scans) ==
    LET ramp_time_ms == NumberOr0(Get(params, "IMS_imeX_RampTime"))
        quench_time == NumberOr0(Get(params, "Collision_QuenchTime_Set"))
    IN  IF ramp_time_ms.ok /\ quench_time.ok
        THEN Str(FormatSeconds(total_scans * (ramp_time_ms.n + quench_time.n)))
        ELSE Str("N/A")

\* the fields _process_dia_pasef_data derives from the rows of Type 1
DiaGeometry(params, pasef_scans, ms1_scans) ==
    [k \in {"calc_ramps", "calc_steps", "calc_mz_width", "calc_scan_area_mz",
            "calc_scan_area_im", "calc_cycle_time"} |->
        CASE k = "calc_ramps" -> IntVal(Max(Column(pasef_scans, "CycleId")))
          [] k = "calc_steps" -> IntVal(LargestCycle(pasef_scans))
          [] k = "calc_mz_width" ->
                IF Cardinality(Column(pasef_scans, "IsolationWidth")) = 1
                THEN Str("static (" \o Format1f(pasef_scans[1].IsolationWidth) \o ")")
                ELSE Str("variable")
          [] k = "calc_scan_area_mz" ->
                Str(FormatHalf2f(2 * MinMzRow(pasef_scans).IsolationMz
                                 - MinMzRow(pasef_scans).IsolationWidth)
                    \o " m/z - "
                    \o FormatHalf2f(2 * MaxMzRow(pasef_scans).IsolationMz
                                    + MaxMzRow(pasef_scans).IsolationWidth)
                    \o " m/z")
          [] k = "calc_scan_area_im" ->
                Str(Format4f(Min(Column(pasef_scans, "OneOverK0Start"))) \o " - "
                    \o Format4f(Max(Column(pasef_scans, "OneOverK0End"))))
          [] k = "calc_cycle_time" ->
                cycle_time(params, Max(Column(pasef_scans, "CycleId")) + ms1_scans)]

\* _initialize_dia_params_as_na(segment, ms1_scans_only=True)
initialize_dia_params_as_na_ms1_scans_only(params) ==
    Update(params, [k \in {"calc_ramps", "calc_steps", "calc_mz_width",
                           "calc_scan_area_mz", "calc_scan_area_im", "calc_cycle_time"}
                      |-> Str("N/A")])

\* _process_dia_pasef_data once the table is read and not empty
DiaFromRows(params, pasef_scans, ms1_scans) ==
    IF pasef_scans # <<>>
    THEN Update(Set(params, "calc_ms1_scans", IntVal(ms1_scans)),
                DiaGeometry(params, pasef_scans, ms1_scans))
    ELSE initialize_dia_params_as_na_ms1_scans_only(
             Set(params, "calc_ms1_scans", IntVal(ms1_scans)))

DiaMutant(params, store) ==
    IF store.kind # "table" \/ store.rows = <<>> THEN initialize_dia_params_as_na(params)
    ELSE DiaFromRows(params, store.rows,
                     Len(SelectSeq(store.rows, LAMBDA r : r.Type = 0)))

\* what _process_dia_pasef_data raises on a table that has rows and a numeric
\* Type column but text in IsolationWidth, or NoError: with rows of Type 1 the
\* ValueError of f"{width:.1f}" (line 666), without them the TypeError of
\* IsolationMz - IsolationWidth / 2 (line 690); neither line is inside a try
DiaError(store) ==
    IF store.kind = "text_table" /\ store.rows # <<>>
       /\ "Type" \notin store.text_columns /\ "IsolationWidth" \in store.text_columns
    THEN IF \E j \in 1..Len(store.rows) : store.rows[j].Type = 1
         THEN [type |-> "ValueError", message |-> "Unknown format code 'f' for object of type 'str'"]
         ELSE [type |-> "TypeError", message |-> "unsupported operand type(s) for /: 'str' and 'int'"]
    ELSE NoError

\* the exception that leaves _perform_calculations, or NoError
CalculationError(scan_mode_id) ==
    IF scan_mode_id = 9 THEN DiaError(doc.dia_store) ELSE NoError

\* _process_dia_pasef_data with diasettings.diasqlite as the store, where it
\* returns; a Type column that is not numeric gives "N/A" like an empty table
process_dia_pasef_data(params, store) ==
    IF store.kind \in {"missing", "unreadable"} \/ store.rows = <<>>
    THEN initialize_dia_params_as_na(params)
    ELSE IF store.kind = "text_table" /\ "Type" \in store.text_columns
    THEN initialize_dia_params_as_na(params)
    ELSE DiaFromRows(params, SelectSeq(store.rows, LAMBDA r : r.Type = 1),
                     Len(SelectSeq(store.rows, LAMBDA r : r.Type = 0)))

\* _process_diagonal_pasef_data once the row of Template is read; the catalogue of
\* the model resolves neither IMS_imeX_RampStart nor IMS_imeX_RampEnd, so
\* float(None) raises the TypeError that gives calc_scan_area_im "N/A" and leaves
\* calc_scan_area_mz unset
DiagonalFromRow(params, p) ==
    Update(params,
        [k \in {"calc_ms1_scans", "calc_ramps", "calc_mz_width", "calc_scan_area_im",
                "calc_cycle_time"} |->
            CASE k = "calc_ms1_scans" -> IntVal(p.insert_ms_scan)
              [] k = "calc_ramps" -> IntVal(p.number_of_slices)
              [] k = "calc_mz_width" -> Str(Format1f(p.isolation_mz))
              [] k = "calc_scan_area_im" -> Str("N/A")
              [] k = "calc_cycle_time" ->
                    cycle_time(params, p.insert_ms_scan + p.number_of_slices)])

\* _process_diagonal_pasef_data with synchroSettings.syncsqlite as the store: it
\* returns at once without the file, its except branch only logs, and an empty
\* table is skipped
process_diagonal_pasef_data(params, store) ==
    IF store.kind # "table" \/ store.rows = <<>> THEN params
    ELSE DiagonalFromRow(params, store.rows[1])

\* the fields _perform_calculations sets for every scan mode
CommonFields(segment) ==
    [k \in {"calc_scan_mode", "calc_segment_start_time", "calc_segment_end_time"} |->
        CASE k = "calc_scan_mode" -> Str(segment.workflow_name)
          [] k = "calc_segment_start_time" -> Str(Format2f(segment.start_time) \o " min")
          [] k = "calc_segment_end_time" -> Str(segment.end_time_display)]

\* the derivation of the segment's scan mode
ModeSpecific(scan_mode_id, params) ==
    IF scan_mode_id = 6 THEN process_pasef_data(params)
    ELSE IF scan_mode_id = 9 THEN process_dia_pasef_data(params, doc.dia_store)
    ELSE IF scan_mode_id = 11 THEN process_diagonal_pasef_data(params, doc.diag_store)
    ELSE params

PerformCalculationsMutant(params, segment) ==
    ModeSpecific(segment.scan_mode_id,
        calculate_msms_stepping_params(calculate_energy_ramping_params(
            Update(params, CommonFields(segment)))))

\* _perform_calculations on segment.parameters
perform_calculations(params, segment) ==
    ModeSpecific(segment.scan_mode_id,
        calculate_msms_stepping_params(calculate_energy_ramping_params(
            Update(Without(params, {k \in DOMAIN params : StartsWithCalc(k)}),
                   CommonFields(segment)))))

\* `if icc_mode and icc_mode != '0'`
IccActiveMutant(icc_mode) == icc_mode = Str("1")

IccActive(icc_mode) ==
    /\ icc_mode # None /\ icc_mode # Str("") /\ icc_mode # List(<<>>)
    /\ icc_mode # Str("0")

\* the ion-current-control part of _apply_conditional_logic
IccOverride(params) ==
    IF IccActive(Get(params, "IMSICC_Mode"))
    THEN Update(params, [k \in {"IMS_imeX_AccumulationTime", "IMS_imeX_DutyCycleLock",
                                "calc_cycle_time"} \cap DOMAIN params |-> Str("variable")])
    ELSE params

\* the duty-cycle-lock part of _apply_conditional_logic
DutyCycleLock(params) ==
    IF Get(params, "IMS_imeX_DutyCycleLock") = Str("1")
       /\ Get(params, "IMS_imeX_RampTime") # None
    THEN Set(params, "IMS_imeX_AccumulationTime", Get(params, "IMS_imeX_RampTime"))
    ELSE params

\* _apply_conditional_logic on segment.parameters
apply_conditional_logic(params) == IccOverride(DutyCycleLock(params))

(***************************************************************************)
(* SegmentBuilder: load_dataset_from_folder and _parse_and_populate_segment*)
(***************************************************************************)
\* Segment.__init__
Segment(start_time, end_time) ==
    [start_time |-> start_time, end_time |-> end_time,
     end_time_display |-> Format2f(end_time) \o " min",
     workflow_name |-> "", scan_mode_id |-> -1, parameters |-> EmptyDict,
     is_calibration_segment |-> FALSE, ion_polarity |-> "", xml_scope_element |-> -1,
     pasef_polygon_data |-> NoPolygon]

\* the permnames of self.config.all_definitions, in order
AllPermnames == [i \in 1..Len(all_definitions) |-> all_definitions[i].permname]

\* scan_mode_map.get(str(scan_mode_val)); "" is Python's None
WorkflowNameMutant(scan_mode_val) ==
    IF MapGet(scan_mode_map, scan_mode_val) = "" THEN "Unknown"
    ELSE MapGet(scan_mode_map, scan_mode_val)

WorkflowName(scan_mode_val) == MapGet(scan_mode_map, scan_mode_val)

\* int(scan_mode_val), -1 for the None the except branch sets
ScanModeId(scan_mode_val) ==
    IF IsStr(scan_mode_val) /\ scan_mode_val.v[1] \in NumericStrings
    THEN NumberOf(scan_mode_val.v[1]) ELSE -1

\* str(value) inside an f-string
StrOf(val) == IF IsStr(val) THEN val.v[1] ELSE IF val = None THEN "None" ELSE "[...]"

UnsupportedScanModeError(scan_mode_val, start_time) ==
    [type |-> "UnsupportedScanModeError",
     message |-> "Unsupported Scan Mode: '" \o StrOf(scan_mode_val)
                 \o "' found in segment starting at " \o Format2f(start_time) \o " min."]

\* the loop over unfiltered_params that picks the entry the driver selects out of
\* a value that is still a list
SelectDrivenEntries(unfiltered) ==
    [k \in DOMAIN unfiltered |->
        LET value == unfiltered[k]
            driver_permname == IF k \in Permnames(all_definitions)
                               THEN FullConfig(k).lookup_driven_by ELSE ""
            index == IF driver_permname = "" THEN NoIndex
                     ELSE ime_x_mode_to_index(Get(unfiltered, driver_permname))
        IN  IF IsList(value) /\ index # NoIndex /\ index < Len(value.v)
            THEN (IF value.v[index + 1] = NoneEntry THEN None ELSE Str(value.v[index + 1]))
            ELSE value]

\* allowed_permnames of a workflow
AllowedPermnames(workflow_name) ==
    Range(parameter_definitions["__GENERAL__"])
    \cup (IF workflow_name \in DOMAIN parameter_definitions
          THEN Range(parameter_definitions[workflow_name]) ELSE {})

\* the polarity context of a segment scope: its own Mode_IonPolarity, else the
\* inherited one, through the polarity value map
PolarityString(param_scope_element, inherited) ==
    LET current_polarity_val ==
            get_value_from_element(FindPermname(param_scope_element, "Mode_IonPolarity"),
                                   NoIndex)
        final_polarity_raw_val ==
            IF current_polarity_val # None THEN current_polarity_val
            ELSE Get(inherited, "Mode_IonPolarity")
    IN  MapGet(polarity_map, final_polarity_raw_val)

\* previous_params.copy(), updated with the values parsed from the segment's
\* scope, with the driven entries selected
MergedParams(param_scope_element, instrument_scope_element, previous_params) ==
    SelectDrivenEntries(
        Update(previous_params,
               parse_parameters_for_scope(param_scope_element, instrument_scope_element,
                   AllPermnames, PolarityString(param_scope_element, previous_params), "")))

\* segment.ion_polarity: polarity_map.get(str(value), "Unknown").lower()
IonPolarity(final_polarity_val) ==
    IF MapGet(polarity_map, final_polarity_val) = "" THEN "unknown"
    ELSE Lower(MapGet(polarity_map, final_polarity_val))

\* the segment with its workflow, scan mode id and polarity
Identified(new_segment, merged) ==
    [new_segment EXCEPT !.workflow_name = WorkflowName(Get(merged, "Mode_ScanMode")),
                        !.scan_mode_id = ScanModeId(Get(merged, "Mode_ScanMode")),
                        !.ion_polarity = IonPolarity(Get(merged, "Mode_IonPolarity"))]

\* the workflow filter and the calibration flag
Filtered(segment, unfiltered_params) ==
    [raised |-> FALSE, error |-> NoError,
     segment |-> [segment EXCEPT
         !.parameters =
             [k \in {x \in DOMAIN unfiltered_params :
                         x \in AllowedPermnames(segment.workflow_name) \/ StartsWithCalc(x)}
                |-> unfiltered_params[k]],
         !.is_calibration_segment =
             (Get(unfiltered_params, "Calibration_MarkSegment") = Str("1"))],
     unfiltered_params |-> unfiltered_params]

\* _process_pasef_data, which only a PASEF segment runs, sets the polygon
WithPolygon(segment, merged) ==
    IF segment.scan_mode_id = 6
    THEN [segment EXCEPT !.pasef_polygon_data = pasef_polygon_data(merged)]
    ELSE segment

\* new_segment.parameters and unfiltered_params are one dict object while
\* _perform_calculations and _apply_conditional_logic run, so the mapping that is
\* filtered and the mapping that is returned are the mapping those two changed
Populated(segment, merged) ==
    Filtered(WithPolygon(segment, merged),
             apply_conditional_logic(perform_calculations(merged, segment)))

Populate(new_segment, merged) ==
    IF WorkflowName(Get(merged, "Mode_ScanMode")) = ""
    THEN [raised |-> TRUE,
          error |-> UnsupportedScanModeError(Get(merged, "Mode_ScanMode"),
                                             new_segment.start_time),
          segment |-> new_segment, unfiltered_params |-> merged]
    ELSE IF CalculationError(ScanModeId(Get(merged, "Mode_ScanMode"))) # NoError
    THEN [raised |-> TRUE,
          error |-> CalculationError(ScanModeId(Get(merged, "Mode_ScanMode"))),
          segment |-> new_segment, unfiltered_params |-> merged]
    ELSE Populated(Identified(new_segment, merged), merged)

\* _parse_and_populate_segment: [raised, error, segment, unfiltered_params]
parse_and_populate_segment(new_segment, param_scope_element, instrument_scope_element, previous_params) ==
    Populate(new_segment,
             MergedParams(param_scope_element, instrument_scope_element, previous_params))

(***************************************************************************)
(* Scope queries: _parse_parameters_for_scope applied to bounded scopes    *)
(***************************************************************************)
MaxItems == 2

\* the children a scope of the model may hold; every parameter element of a
\* scope carries the value tag of its position, so a result names its origin
ScopeItem(kind, tag) ==
    CASE kind = "base" -> Param("Collision_QuenchTime_Set", tag)
      [] kind = "pol" -> Dependent("positive", "", <<Param("Collision_QuenchTime_Set", tag)>>)
      [] kind = "pol_src" -> Dependent("positive", "ESI", <<Param("Collision_QuenchTime_Set", tag)>>)
      [] kind = "src" -> Dependent("", "esi", <<Param("Collision_QuenchTime_Set", tag)>>)
      [] kind = "other" -> Dependent("negative", "APCI", <<Param("Collision_QuenchTime_Set", tag)>>)
      [] kind = "driver" -> Param("IMS_imeX_Mode", "1")
      [] kind = "driven" -> ParamVec("IMS_imeX_RampTime", <<tag, "r1", "r2">>)
      [] kind = "driver_unlisted" -> Param("IMS_imeX_Mode", "7")
      [] kind = "driven_scalar" -> Param("IMS_imeX_RampTime", tag)
      [] kind = "instr_param" -> Param("Instrument_Model", tag)

ItemKinds ==
    {"base", "pol", "pol_src", "src", "other", "driver", "driven", "driver_unlisted",
     "driven_scalar", "instr_param"}

PositionTag(i) == "m" \o ToString(i)

ScopeChildren(kinds) == [i \in 1..Len(kinds) |-> ScopeItem(kinds[i], PositionTag(i))]

KindSeqs == UNION {[1..n -> ItemKinds] : n \in 0..MaxItems}

InstrumentChoices ==
    {NoElement,
     Instrument(<<>>),
     Instrument(<<Param("Collision_QuenchTime_Set", "i1")>>),
     Instrument(<<Param("Instrument_Model", "i1")>>),
     Instrument(<<Param("Instrument_Model", "i1"), Param("Collision_QuenchTime_Set", "i2")>>)}

RequestLists ==
    {<<"Collision_QuenchTime_Set">>, <<"Instrument_Model">>,
     <<"IMS_imeX_Mode", "IMS_imeX_RampTime">>, <<"IMS_imeX_RampTime", "IMS_imeX_Mode">>}


IdleState ==
    /\ dataset = NoDataset
    /\ seg_pos = 0
    /\ last_end_time = 0
    /\ last_segment_params = EmptyDict
    /\ returned_params = <<>>
    /\ datasets = <<>>
    /\ error = NoError
    /\ calls = <<>>
    /\ before_call = <<>>
    /\ query = NoQuery
    /\ result = EmptyDict
    /\ lookup = NoLookup
    /\ report = NoReport

InitScope ==
    /\ \E kinds \in KindSeqs, instr \in InstrumentChoices :
          doc = MethodOnly(Method(ScopeChildren(kinds)), instr)
    /\ pc = "scope"
    /\ IdleState

\* a caller (get_parameter_value_for_source, parse_additional_parameters) resolves
\* a requested list against the scope for a polarity and a source context
ParseParametersForScope ==
    /\ pc = "scope"
    /\ query = NoQuery
    /\ \E param_info \in RequestLists, ion_polarity \in {"", "Positive"},
          ion_source \in {"", "ESI"} :
          /\ query' = [param_info |-> param_info, ion_polarity |-> ion_polarity,
                       ion_source |-> ion_source]
          /\ result' = parse_parameters_for_scope(doc.method, doc.instrument, param_info,
                                                  ion_polarity, ion_source)
    /\ UNCHANGED <<doc, pc, dataset, seg_pos, last_end_time, last_segment_params,
                   returned_params, datasets, error, calls, before_call, lookup, report>>

NextScope == ParseParametersForScope
SpecScope == InitScope /\ [][NextScope]_vars

\* the dependent scopes of the method scope that hold the parameter, by the way
\* their attributes match the query's context
Asked(p) == query.param_info # <<>> /\ p \in Range(query.param_info)
MethodDeps == SelectSeq(doc.method.children, LAMBDA e : e.tag = "dependent")
PolOk(e) == e.polarity # "" /\ query.ion_polarity # ""
            /\ Lower(e.polarity) = Lower(query.ion_polarity)
SrcOk(e) == e.source # "" /\ query.ion_source # ""
            /\ Lower(e.source) = Lower(query.ion_source)
Holds(e, p) == \E j \in 1..Len(e.children) : e.children[j].permname = p
ValueHeld(e, p) ==
    LET j == CHOOSE k \in 1..Len(e.children) : e.children[k].permname = p
    IN  Str(e.children[j].value[1])
ValuesIn(deps, p) ==
    {ValueHeld(deps[i], p) : i \in {k \in 1..Len(deps) : Holds(deps[k], p)}}
BothScopes == SelectSeq(MethodDeps, LAMBDA e : PolOk(e) /\ SrcOk(e))
PolOnlyScopes == SelectSeq(MethodDeps, LAMBDA e : PolOk(e) /\ ~SrcOk(e))
SrcOnlyScopes == SelectSeq(MethodDeps, LAMBDA e : ~PolOk(e) /\ SrcOk(e))

\* C7: when a polarity+source scope holds the parameter, the value comes from
\* such a scope, whatever other scopes hold it and in whatever order; with no
\* such scope, a polarity-only scope wins over a source-only scope.
C7_Specificity ==
    LET p == "Collision_QuenchTime_Set"
    IN  Asked(p) =>
          /\ ValuesIn(BothScopes, p) # {} => Get(result, p) \in ValuesIn(BothScopes, p)
          /\ (ValuesIn(BothScopes, p) = {} /\ ValuesIn(PolOnlyScopes, p) # {})
                => Get(result, p) \in ValuesIn(PolOnlyScopes, p)

\* a polarity-only scope stands before the polarity+source scope in the document
\* and the polarity+source value was returned
C7_Witness ==
    /\ Asked("Collision_QuenchTime_Set")
    /\ Len(MethodDeps) = 2
    /\ PolOk(MethodDeps[1]) /\ ~SrcOk(MethodDeps[1])
    /\ PolOk(MethodDeps[2]) /\ SrcOk(MethodDeps[2])
    /\ Get(result, "Collision_QuenchTime_Set") = Str("m2")

\* C8: the dependent parameter gets the same value whether the driver is
\* requested before or after it.
C8_OrderIndependent ==
    (query.param_info = <<"IMS_imeX_Mode", "IMS_imeX_RampTime">>
     /\ "IMS_imeX_Mode" \in DOMAIN result)
    => Get(result, "IMS_imeX_RampTime")
         = Get(parse_parameters_for_scope(doc.method, doc.instrument,
                                          <<"IMS_imeX_RampTime", "IMS_imeX_Mode">>,
                                          query.ion_polarity, query.ion_source),
               "IMS_imeX_RampTime")

\* driver and driven parameter are both in the scope, the driver was requested
\* last, and the entry the driver selects was returned
C8_Witness ==
    /\ query.param_info = <<"IMS_imeX_RampTime", "IMS_imeX_Mode">>
    /\ Get(result, "IMS_imeX_Mode") = Str("1")
    /\ Get(result, "IMS_imeX_RampTime") = Str("r1")

\* the value p has in the first of the scopes, in document order, that holds it
FirstHeld(deps, p) ==
    ValueHeld(deps[CHOOSE i \in 1..Len(deps) :
                      /\ Holds(deps[i], p)
                      /\ \A k \in 1..(i - 1) : ~Holds(deps[k], p)], p)

\* C19: among the conditional scopes of the winning rank (polarity and source,
\* else polarity only, else source only) that hold the parameter, the value of
\* the scope met first in document order is returned
C19_TiesByEncounterOrder ==
    Asked("Collision_QuenchTime_Set") =>
        Get(result, "Collision_QuenchTime_Set") =
           IF ValuesIn(BothScopes, "Collision_QuenchTime_Set") # {}
           THEN FirstHeld(BothScopes, "Collision_QuenchTime_Set")
           ELSE IF ValuesIn(PolOnlyScopes, "Collision_QuenchTime_Set") # {}
           THEN FirstHeld(PolOnlyScopes, "Collision_QuenchTime_Set")
           ELSE IF ValuesIn(SrcOnlyScopes, "Collision_QuenchTime_Set") # {}
           THEN FirstHeld(SrcOnlyScopes, "Collision_QuenchTime_Set")
           ELSE Get(result, "Collision_QuenchTime_Set")

\* the list of the value attributes of e's entries
WholeArray(e) == List([i \in 1..Len(e.children) |-> e.children[i].value[1]])

\* C20: with the driver resolved, a dependent parameter found as an array gives
\* the entry at the index the driver value maps to, and the whole array when the
\* driver value is not in the code-to-index table; found as an element without
\* entries it gives that element's own value attribute
C20_IndexOnlyForArrays ==
    (/\ Asked("IMS_imeX_RampTime") /\ "IMS_imeX_Mode" \in DOMAIN result
     /\ FindPermname(doc.method, "IMS_imeX_RampTime") # NoElement)
    => Get(result, "IMS_imeX_RampTime") =
          IF FindPermname(doc.method, "IMS_imeX_RampTime").children = <<>>
          THEN AttrValue(FindPermname(doc.method, "IMS_imeX_RampTime"))
          ELSE IF ime_x_mode_to_index(result["IMS_imeX_Mode"]) = NoIndex
          THEN WholeArray(FindPermname(doc.method, "IMS_imeX_RampTime"))
          ELSE Str(FindPermname(doc.method, "IMS_imeX_RampTime")
                     .children[ime_x_mode_to_index(result["IMS_imeX_Mode"]) + 1].value[1])

\* the conditional scopes that match the context neither by polarity nor by source
NoMatchScopes == SelectSeq(MethodDeps, LAMBDA e : ~PolOk(e) /\ ~SrcOk(e))

\* C27: a value that stands only inside a conditional scope matching neither the
\* polarity nor the source of the context is never returned
C27_NonMatchingInvisible ==
    Asked("Collision_QuenchTime_Set") =>
        Get(result, "Collision_QuenchTime_Set")
           \notin ValuesIn(NoMatchScopes, "Collision_QuenchTime_Set")

InMethodScope(p) == FindPermname(doc.method, p) # NoElement
InInstrumentScope(p) == doc.instrument # NoElement /\ FindPermname(doc.instrument, p) # NoElement
MethodTags == {Str(PositionTag(i)) : i \in 1..(MaxItems + 1)}

\* C9: a method parameter missing from the method scope is read from the
\* instrument scope; an instrument parameter is never read from the method
\* scope and is absent when the instrument scope is missing or lacks it.
C9_OneDirectionalFallback ==
    /\ (Asked("Collision_QuenchTime_Set") /\ ~InMethodScope("Collision_QuenchTime_Set")
        /\ InInstrumentScope("Collision_QuenchTime_Set"))
       => Get(result, "Collision_QuenchTime_Set")
            = AttrValue(FindPermname(doc.instrument, "Collision_QuenchTime_Set"))
    /\ Asked("Instrument_Model") =>
          /\ Get(result, "Instrument_Model") \notin MethodTags
          /\ ~InInstrumentScope("Instrument_Model") => "Instrument_Model" \notin DOMAIN result

\* the instrument parameter stands in the method scope only, there is no
\* instrument scope, and the query for it came back empty
C9_Witness ==
    /\ Asked("Instrument_Model")
    /\ InMethodScope("Instrument_Model")
    /\ doc.instrument = NoElement
    /\ result = EmptyDict

(***************************************************************************)
(* Loading a folder: load_dataset_from_folder driven by _load_folders      *)
(***************************************************************************)
MaxSegments == 2

\* the method-level parameters outside the timetable
StdBase(scan_mode, icc_mode, lock) ==
    <<Param("Mode_ScanMode", scan_mode), Param("Mode_IonPolarity", "0"),
      Param("IMSICC_Mode", icc_mode), Param("IMS_imeX_Mode", "1"),
      ParamVec("IMS_imeX_RampTime", <<"50", "100", "150">>),
      ParamVec("IMS_imeX_AccumulationTime", <<"20", "40", "60">>),
      Param("IMS_imeX_DutyCycleLock", lock),
      Param("MSMS_Pasef_NumRampsPerCycle", "10"),
      Param("Collision_QuenchTime_Set", "0")>>

BaseChoices ==
    {StdBase("6", "0", "0"), StdBase("6", "1", "0"), StdBase("9", "2", "1"),
     StdBase("11", "0", "1"),
     <<Param("Mode_ScanMode", "0"), Param("IMSICC_Mode", "1")>>,
     <<Param("Mode_IonPolarity", "1"),
       ParamVec("IMS_imeX_RampTime", <<"50", "100", "150">>)>>}

\* what a segment element may override
SegmentChoices ==
    {<<>>,
     <<Param("Mode_ScanMode", "0")>>,
     <<Param("Mode_ScanMode", "99")>>,
     <<Param("IMSICC_Mode", "1")>>,
     <<Param("IMS_imeX_DutyCycleLock", "1")>>,
     <<Param("IMS_imeX_Mode", "2")>>,
     <<Param("IMSICC_Target", "8"), Param("Calibration_MarkSegment", "1")>>}

LoadInstrumentChoices ==
    {NoElement, Instrument(<<Param("Instrument_Model", "i1"), Param("IMSICC_Target", "3")>>)}

\* the endtime attribute of a segment element; <<>> is a missing attribute
EndTimeChoices == {<<>>, <<"abc">>, <<"-1">>, <<"0">>, <<"3">>, <<"5">>, <<"10">>}

ContentSeqs == UNION {[1..n -> SegmentChoices] : n \in 0..MaxSegments}
EndTimeSeqs == UNION {[1..n -> EndTimeChoices] : n \in 0..MaxSegments}

\* a method file: the method-level parameters, then the timetable
MethodFile(base, segs, instr) ==
    MethodOnly(Method(base \o (IF segs = <<>> THEN <<>> ELSE <<Timetable(segs)>>)), instr)

\* files that differ in what the segments override (end times 5, 10, ..)
ContentFile(base, content, instr) ==
    MethodFile(base, [i \in 1..Len(content) |-> SegmentEl(<<ToString(5 * i)>>, content[i])],
               instr)

\* files that differ in the endtime attributes of their segments
EndTimeFile(ends) ==
    MethodFile(StdBase("6", "0", "0"), [i \in 1..Len(ends) |-> SegmentEl(ends[i], <<>>)],
               NoElement)

\* the isolation-window table of a dia-PASEF method: two MS1 rows, then three
\* windows in each of two cycles
ExampleDiaRows ==
    <<DiaRow(0, 0, 1, 2, 0, 0), DiaRow(0, 0, 1, 2, 0, 0),
      DiaRow(1, 1, 1, 2, 400, 50), DiaRow(1, 1, 2, 3, 450, 50), DiaRow(1, 1, 3, 4, 500, 50),
      DiaRow(1, 2, 1, 2, 425, 50), DiaRow(1, 2, 2, 3, 475, 50), DiaRow(1, 2, 3, 4, 525, 50)>>

\* a table whose MS1 rows carry cycle ids above those of the windows, and a
\* table of MS1 rows only
MixedDiaRows ==
    <<DiaRow(0, 5, 1, 2, 0, 0), DiaRow(1, 1, 1, 2, 400, 50), DiaRow(1, 3, 2, 3, 450, 25),
      DiaRow(0, 7, 1, 2, 0, 0), DiaRow(0, 0, 1, 2, 0, 0)>>
Ms1OnlyRows == <<DiaRow(0, 0, 1, 2, 0, 0), DiaRow(0, 4, 1, 2, 0, 0)>>

\* a table whose cycles hold 1, 1 and 2 windows
UnevenDiaRows ==
    <<DiaRow(0, 0, 1, 2, 0, 0), DiaRow(1, 1, 1, 2, 400, 50), DiaRow(1, 2, 1, 2, 450, 50),
      DiaRow(1, 3, 1, 2, 500, 50), DiaRow(1, 3, 2, 3, 550, 50)>>

DiaStoreChoices ==
    {MissingStore, UnreadableStore, Table(<<>>), Table(ExampleDiaRows), Table(MixedDiaRows),
     Table(Ms1OnlyRows), Table(UnevenDiaRows), TextTable(ExampleDiaRows, {"Type"}),
     TextTable(ExampleDiaRows, {"IsolationWidth"}),
     TextTable(Ms1OnlyRows, {"IsolationWidth"})}
DiagStoreChoices ==
    {MissingStore, UnreadableStore, Table(<<>>), Table(<<TemplateRow(1, 4, 25, 1, 0, 100)>>)}

StoreBaseChoices == {StdBase("9", "0", "0"), StdBase("11", "0", "0"), StdBase("11", "1", "0")}

\* folders that differ in their auxiliary stores
StoreFile(base, content, dia_store, diag_store) ==
    [ContentFile(base, content, NoElement) EXCEPT !.dia_store = dia_store,
                                                  !.diag_store = diag_store]

\* methods that differ in what the cycle time is computed from; <<>> is a
\* parameter the file does not have
CycleBase(scan_mode, ramps, ramp_time, quench) ==
    <<Param("Mode_ScanMode", scan_mode), Param("IMSICC_Mode", "0")>>
    \o [i \in 1..Len(ramps) |-> Param("MSMS_Pasef_NumRampsPerCycle", ramps[i])]
    \o [i \in 1..Len(ramp_time) |-> Param("IMS_imeX_RampTime", ramp_time[i])]
    \o [i \in 1..Len(quench) |-> Param("Collision_QuenchTime_Set", quench[i])]

CycleFile(scan_mode, ramps, ramp_time, quench, dia_store) ==
    [MethodFile(CycleBase(scan_mode, ramps, ramp_time, quench), <<>>, NoElement)
        EXCEPT !.dia_store = dia_store,
               !.diag_store = Table(<<TemplateRow(1, 4, 25, 1, 0, 100)>>)]

\* a PASEF method without timetable with the duty-cycle lock on, an accumulation
\* time of its own and, in ramp_time, the ramp time if the file has one
LockFile(icc_mode, ramp_time) ==
    MethodFile(<<Param("Mode_ScanMode", "6"), Param("IMSICC_Mode", icc_mode),
                 Param("IMS_imeX_DutyCycleLock", "1"),
                 Param("IMS_imeX_AccumulationTime", "20")>>
               \o [i \in 1..Len(ramp_time) |-> Param("IMS_imeX_RampTime", ramp_time[i])],
               <<>>, NoElement)

\* what a segment may switch off after a predecessor that had it on
SwitchOffChoices ==
    {<<>>, <<Param("IMSICC_Mode", "0")>>, <<Param("IMS_imeX_DutyCycleLock", "0")>>}
SwitchOffSeqs == UNION {[1..n -> SwitchOffChoices] : n \in 1..MaxSegments}

\* the polygon filter of a PASEF method: up to MaxPoints entries per vector
MaxPoints == 2
PolygonMassEntries == {<<"100">>, <<"150">>, <<>>}
PolygonMobilityEntries == {<<"1">>, <<"2">>, <<"x">>}
PolygonMassSeqs == UNION {[1..n -> PolygonMassEntries] : n \in 0..MaxPoints}
PolygonMobilitySeqs == UNION {[1..n -> PolygonMobilityEntries] : n \in 0..MaxPoints}

\* a PASEF method without timetable that carries the two polygon vectors
PolygonFile(scan_mode, mass, mobility) ==
    MethodFile(StdBase(scan_mode, "0", "0")
                 \o <<ParamEntries("IMS_PolygonFilter_Mass", mass),
                      ParamEntries("IMS_PolygonFilter_Mobility", mobility)>>,
               <<>>, NoElement)

InitLoad ==
    /\ \/ \E base \in BaseChoices, content \in ContentSeqs, instr \in LoadInstrumentChoices :
             doc = ContentFile(base, content, instr)
       \/ \E ends \in EndTimeSeqs : doc = EndTimeFile(ends)
       \/ doc = MethodOnly(NoElement, NoElement)
       \/ \E file \in {"missing", "malformed"} :
             doc = Folder(file, NoElement, NoElement, MissingStore, MissingStore)
       \/ \E base \in StoreBaseChoices, content \in {<<>>, <<<<>>>>},
             dia_store \in DiaStoreChoices, diag_store \in DiagStoreChoices :
             doc = StoreFile(base, content, dia_store, diag_store)
       \/ \E scan_mode \in {"6", "9", "11"}, ramps \in {<<>>, <<"4">>, <<"x">>},
             ramp_time \in {<<>>, <<"50">>, <<"100">>}, quench \in {<<>>, <<"0">>, <<"10">>},
             dia_store \in {Table(ExampleDiaRows), Table(MixedDiaRows)} :
             doc = CycleFile(scan_mode, ramps, ramp_time, quench, dia_store)
       \/ \E base \in {StdBase("6", "1", "0"), StdBase("6", "0", "1")},
             content \in SwitchOffSeqs :
             doc = ContentFile(base, content, NoElement)
       \/ \E icc_mode \in {"0", "1"}, ramp_time \in {<<>>, <<"50">>} :
             doc = LockFile(icc_mode, ramp_time)
       \/ \E scan_mode \in {"6", "0"}, mass \in PolygonMassSeqs,
             mobility \in PolygonMobilitySeqs :
             doc = PolygonFile(scan_mode, mass, mobility)
    /\ pc = "idle"
    /\ IdleState

\* _discover_available_parameters: the definitions some default view names
DefaultParams ==
    SelectSeq(AllPermnames,
              LAMBDA p : \E w \in DOMAIN parameter_definitions :
                             p \in Range(parameter_definitions[w]))

\* float(seg_element.attrib.get("endtime", "-1")), -1.0 on a ValueError
EndTime(seg_element) ==
    IF seg_element.endtime = <<>> THEN -1
    ELSE IF seg_element.endtime[1] \in NumericStrings THEN NumberOf(seg_element.endtime[1])
    ELSE -1

\* the segment of a file without segment elements
ImplicitSegmentMutant == [Segment(0, -1) EXCEPT !.xml_scope_element = 0]

ImplicitSegment ==
    [Segment(0, -1) EXCEPT !.end_time_display = "N/A", !.xml_scope_element = 0]

\* the segment made for the seg_element at a position of the timetable
ExplicitSegment(start_time, end_time, position) ==
    [Segment(start_time, end_time) EXCEPT
        !.end_time_display = IF end_time < 0 THEN "Open End" ELSE @,
        !.xml_scope_element = position]

ParsingError == [type |-> "ParsingError",
                 message |-> "Could not find the <method> tag in the file."]

\* the polarity context of the seed: the method's first Mode_IonPolarity or '0'
GlobalPolarityString(method_element) ==
    LET global_polarity_val ==
            get_value_from_element(FindPermname(method_element, "Mode_IonPolarity"), NoIndex)
    IN  MapGet(polarity_map,
               IF global_polarity_val = None \/ global_polarity_val = Str("")
                  \/ global_polarity_val = List(<<>>)
               THEN Str("0") ELSE global_polarity_val)

Fail(e) ==
    /\ pc' = "failed"
    /\ error' = e
    /\ UNCHANGED <<dataset, seg_pos, last_end_time, last_segment_params, returned_params>>

\* what the caller of _parse_and_populate_segment does with its outcome
Built(r, previous_params, end_time) ==
    IF r.raised THEN Fail(r.error)
    ELSE /\ dataset' = [dataset EXCEPT !.segments = Append(@, r.segment),
                                       !.default_params = DefaultParams]
         /\ returned_params' = Append(returned_params,
                                      [previous |-> previous_params,
                                       returned |-> r.unfiltered_params])
         /\ last_segment_params' = r.unfiltered_params
         /\ last_end_time' = IF end_time >= 0 THEN end_time ELSE last_end_time
         /\ seg_pos' = seg_pos + 1
         /\ UNCHANGED <<pc, error>>

MethodFileNotFoundError ==
    [type |-> "MethodFileNotFoundError",
     message |-> "Could not find 'microtofqimpactemacquisition.method'"]
XmlParsingError == [type |-> "ParsingError", message |-> "Failed to parse XML"]

\* what load_dataset_from_folder raises before it has a document root
FileErrorMutant(file) == XmlParsingError

FileError(file) ==
    IF file = "missing" THEN MethodFileNotFoundError ELSE XmlParsingError

\* load_dataset_from_folder on a folder without a method file or with one that
\* ET.parse rejects
LoadFileError ==
    /\ pc = "idle"
    /\ doc.file # "ok"
    /\ Fail(FileError(doc.file))
    /\ UNCHANGED <<doc, datasets, calls, before_call, query, result, lookup, report>>

\* the branch for a file without segment elements, after the method element is found
BuiltImplicit(r) ==
    IF r.raised THEN Fail(r.error)
    ELSE /\ dataset' = [dataset EXCEPT !.segments = Append(@, r.segment),
                                       !.default_params = DefaultParams]
         /\ returned_params' = Append(returned_params,
                                      [previous |-> EmptyDict,
                                       returned |-> r.unfiltered_params])
         /\ pc' = "built"
         /\ UNCHANGED <<seg_pos, last_end_time, last_segment_params, error>>

\* load_dataset_from_folder on a file without segment elements
LoadImplicitSegment ==
    /\ pc = "idle"
    /\ doc.file = "ok"
    /\ SegmentElements(doc.method) = <<>>
    /\ IF doc.method = NoElement THEN Fail(ParsingError)
       ELSE BuiltImplicit(parse_and_populate_segment(ImplicitSegment, doc.method,
                                                     doc.instrument, EmptyDict))
    /\ UNCHANGED <<doc, datasets, calls, before_call, query, result, lookup, report>>

\* load_dataset_from_folder up to the loop over the segment elements: the seed
LoadSeed ==
    /\ pc = "idle"
    /\ doc.file = "ok"
    /\ SegmentElements(doc.method) # <<>>
    /\ pc' = "loading"
    /\ dataset' = [dataset EXCEPT !.default_params = DefaultParams]
    /\ last_end_time' = 0
    /\ last_segment_params' =
          parse_parameters_for_scope(doc.method, doc.instrument, AllPermnames,
                                     GlobalPolarityString(doc.method), "")
    /\ UNCHANGED <<doc, seg_pos, returned_params, datasets, error, calls, before_call,
                   query, result, lookup, report>>

\* the segment element the loop handles next and its end time
NextSegmentElement == SegmentElements(doc.method)[seg_pos + 1]

\* one pass of the loop over the segment elements
LoadSegment ==
    /\ pc = "loading"
    /\ seg_pos < Len(SegmentElements(doc.method))
    /\ Built(parse_and_populate_segment(
                 ExplicitSegment(last_end_time, EndTime(NextSegmentElement), seg_pos + 1),
                 NextSegmentElement, doc.instrument, last_segment_params),
             last_segment_params, EndTime(NextSegmentElement))
    /\ UNCHANGED <<doc, datasets, calls, before_call, query, result, lookup, report>>

\* load_dataset_from_folder returns the Dataset and _load_folders appends it
LoadReturn ==
    /\ \/ pc = "built"
       \/ pc = "loading" /\ seg_pos = Len(SegmentElements(doc.method))
    /\ pc' = "loaded"
    /\ datasets' = Append(datasets, dataset)
    /\ UNCHANGED <<doc, dataset, seg_pos, last_end_time, last_segment_params,
                   returned_params, error, calls, before_call, query, result, lookup, report>>

NextLoad == LoadFileError \/ LoadImplicitSegment \/ LoadSeed \/ LoadSegment \/ LoadReturn

Init == InitLoad
Next == NextLoad
Spec == Init /\ [][Next]_vars

(***************************************************************************)
(* Properties of load_dataset_from_folder                                  *)
(***************************************************************************)
Explicit == SegmentElements(doc.method) # <<>>
Segments == dataset.segments
ConditionalKeys == {"IMS_imeX_AccumulationTime", "IMS_imeX_DutyCycleLock", "calc_cycle_time"}

\* the unfiltered mapping of segment i and the mapping it was seeded with
Unfiltered(i) == returned_params[i].returned
Seed(i) == returned_params[i].previous

\* p occurs in the scope element of segment i of a file with segment elements
InOwnScope(i, p) == FindPermname(SegmentElements(doc.method)[i], p) # NoElement

\* C1: in a file with segment elements, a catalogue parameter that does not
\* occur in segment i's own scope element has, in the unfiltered mapping of
\* segment i, the value it has in the mapping of segment i-1 (for the first
\* segment: in the mapping resolved from the document-level scope)
C1_Inheritance ==
    Explicit =>
        \A i \in 1..Len(returned_params) : \A p \in Permnames(all_definitions) :
            ~InOwnScope(i, p) => Get(Unfiltered(i), p) = Get(Seed(i), p)

C3_ImplicitSegment ==
    (~Explicit /\ pc \in {"built", "loaded"}) =>
        /\ Len(Segments) = 1
        /\ Segments[1].start_time = 0
        /\ Segments[1].end_time = -1
        /\ Segments[1].end_time_display = "N/A"
        /\ Get(Segments[1].parameters, "calc_segment_end_time") = Str("N/A")

C3_Witness ==
    /\ ~Explicit /\ pc = "loaded" /\ Len(datasets) = 1
    /\ Len(datasets[1].segments) = 1
    /\ datasets[1].segments[1].end_time_display = "N/A"

\* C3 as stated: the one segment's end-time display marks an open end
C3_OpenEndDisplay ==
    (~Explicit /\ pc \in {"built", "loaded"}) =>
        /\ Len(Segments) = 1
        /\ Segments[1].start_time = 0
        /\ Segments[1].end_time_display = "Open End"

\* C4: in a loaded Dataset the first segment starts at 0 and each later segment
\* starts at the end time of the segment before it
C4_Contiguous ==
    pc = "loaded" =>
        /\ Segments[1].start_time = 0
        /\ \A i \in 1..(Len(Segments) - 1) :
              Segments[i + 1].start_time = Segments[i].end_time

\* the effective IMSICC_Mode of segment i is a non-zero mode
IccOn(i) ==
    /\ "IMSICC_Mode" \in DOMAIN Unfiltered(i)
    /\ IsStr(Unfiltered(i)["IMSICC_Mode"])
    /\ Unfiltered(i)["IMSICC_Mode"].v[1] \notin {"", "0"}

\* C10 as amended: in a segment whose effective IMSICC_Mode is non-zero, each of
\* IMS_imeX_AccumulationTime, IMS_imeX_DutyCycleLock and calc_cycle_time that the
\* segment's mapping holds is "variable"; a key the mapping lacks stays absent
C10_IccOverride ==
    \A i \in 1..Len(Segments) :
        IccOn(i) =>
            /\ \A k \in ConditionalKeys \cap DOMAIN Segments[i].parameters :
                  Segments[i].parameters[k] = Str("variable")
            /\ \A k \in ConditionalKeys \cap DOMAIN Unfiltered(i) :
                  Unfiltered(i)[k] = Str("variable")

\* ion-current control with a mode other than '1' on a segment with raw values
\* for all three keys
C10_Witness ==
    \E i \in 1..Len(Segments) :
        /\ IccOn(i) /\ Unfiltered(i)["IMSICC_Mode"] = Str("2")
        /\ \A k \in ConditionalKeys : Get(Segments[i].parameters, k) = Str("variable")

\* C10 as stated: all three keys hold "variable" whatever the scan mode
C10_AllThreeVariable ==
    \A i \in 1..Len(Segments) :
        IccOn(i) => \A k \in ConditionalKeys :
                        Get(Segments[i].parameters, k) = Str("variable")


\* the auxiliary store is missing, unreadable or empty
StoreFailed(store) == store.kind \in {"missing", "unreadable"} \/ store.rows = <<>>

DiagonalFields ==
    {"calc_ms1_scans", "calc_ramps", "calc_mz_width", "calc_scan_area_mz",
     "calc_scan_area_im", "calc_cycle_time"}
DiaFields == DiagonalFields \cup {"calc_steps"}

\* C11: a load whose dia-PASEF or diagonal-PASEF segment finds its auxiliary store
\* missing, unreadable or empty stores the Dataset, and the segment holds "N/A"
\* for every computed field of the mode (segments without ion-current control,
\* whose cycle time is not overwritten)
C11_StoreFailureGivesNA ==
    /\ (pc = "failed" /\ StoreFailed(doc.dia_store))
          => error.type \in {"MethodFileNotFoundError", "ParsingError",
                             "UnsupportedScanModeError"}
    /\ pc = "loaded" =>
          \A i \in 1..Len(Segments) :
              /\ (Segments[i].scan_mode_id = 9 /\ StoreFailed(doc.dia_store) /\ ~IccOn(i))
                    => \A k \in DiaFields : Get(Segments[i].parameters, k) = Str("N/A")
              /\ (Segments[i].scan_mode_id = 11 /\ StoreFailed(doc.diag_store) /\ ~IccOn(i))
                    => \A k \in DiagonalFields :
                           Get(Segments[i].parameters, k) = Str("N/A")

\* the load has ended without a segment, a returned mapping or a stored Dataset
\* the entries of a polygon vector of the document, as the file has them
PolygonEntries(p) == FindPermname(doc.method, p).children

\* a vector of n >= 1 entries that all carry a numeric value
NumericVector(p) ==
    /\ FindPermname(doc.method, p) # NoElement
    /\ Len(PolygonEntries(p)) >= 1
    /\ \A i \in 1..Len(PolygonEntries(p)) :
          /\ PolygonEntries(p)[i].value # <<>>
          /\ PolygonEntries(p)[i].value[1] \in NumericStrings

\* C13: a PASEF segment (scan mode 6) whose two polygon vectors hold n numeric
\* entries each has a polygon of exactly n coordinate pairs, pair k being
\* (mass[k], mobility[k]) of the document, in input order
C13_PasefPolygon ==
    (/\ pc = "loaded"
     /\ doc.file = "ok" /\ doc.method # NoElement
     /\ NumericVector("IMS_PolygonFilter_Mass")
     /\ NumericVector("IMS_PolygonFilter_Mobility")
     /\ Len(PolygonEntries("IMS_PolygonFilter_Mass"))
          = Len(PolygonEntries("IMS_PolygonFilter_Mobility")))
    => \A i \in 1..Len(Segments) :
          Segments[i].scan_mode_id = 6 =>
             /\ Len(Segments[i].pasef_polygon_data.mass)
                  = Len(PolygonEntries("IMS_PolygonFilter_Mass"))
             /\ Len(Segments[i].pasef_polygon_data.mobility)
                  = Len(PolygonEntries("IMS_PolygonFilter_Mass"))
             /\ \A k \in 1..Len(PolygonEntries("IMS_PolygonFilter_Mass")) :
                   /\ Segments[i].pasef_polygon_data.mass[k]
                        = NumberOf(PolygonEntries("IMS_PolygonFilter_Mass")[k].value[1])
                   /\ Segments[i].pasef_polygon_data.mobility[k]
                        = NumberOf(PolygonEntries("IMS_PolygonFilter_Mobility")[k].value[1])

C13_Witness ==
    /\ pc = "loaded"
    /\ PolygonEntries("IMS_PolygonFilter_Mass") = <<Entry("150"), Entry("100")>>
    /\ PolygonEntries("IMS_PolygonFilter_Mobility") = <<Entry("2"), Entry("1")>>
    /\ Segments[1].scan_mode_id = 6
    /\ Segments[1].pasef_polygon_data = [mass |-> <<150, 100>>, mobility |-> <<2, 1>>]

\* the number the document gives parameter k of segment i; an absent or empty
\* value counts as 0
NumberOrZero(i, k) ==
    IF Get(Unfiltered(i), k) \in {None, Str("")} THEN 0
    ELSE NumberOf(Get(Unfiltered(i), k).v[1])

\* k is absent from segment i, or a number
AbsentOrNumeric(i, k) ==
    \/ Get(Unfiltered(i), k) \in {None, Str("")}
    \/ IsStr(Get(Unfiltered(i), k)) /\ Get(Unfiltered(i), k).v[1] \in NumericStrings

\* the rows of the isolation-window table of the given Type
RowsOfType(t) == {j \in 1..Len(doc.dia_store.rows) : doc.dia_store.rows[j].Type = t}

\* whether the scan counts of segment i are known, and their sum
ScansKnown(i) ==
    CASE Segments[i].scan_mode_id = 6 -> AbsentOrNumeric(i, "MSMS_Pasef_NumRampsPerCycle")
      [] Segments[i].scan_mode_id = 9 -> doc.dia_store.kind = "table" /\ RowsOfType(1) # {}
      [] Segments[i].scan_mode_id = 11 ->
            doc.diag_store.kind = "table" /\ doc.diag_store.rows # <<>>
      [] OTHER -> FALSE
TotalScans(i) ==
    CASE Segments[i].scan_mode_id = 6 -> NumberOrZero(i, "MSMS_Pasef_NumRampsPerCycle") + 1
      [] Segments[i].scan_mode_id = 9 ->
            Max({doc.dia_store.rows[j].CycleId : j \in RowsOfType(1)})
            + Cardinality(RowsOfType(0))
      [] Segments[i].scan_mode_id = 11 ->
            doc.diag_store.rows[1].number_of_slices + doc.diag_store.rows[1].insert_ms_scan

\* C14: in a PASEF, dia-PASEF or diagonal-PASEF segment whose scan counts are
\* known, whose ramp time and quench time are numbers or absent and whose ICC
\* mode is off, calc_cycle_time is total_scans * (ramp_time + quench_time) / 1000
\* seconds, total_scans being num_ramps + 1 (PASEF), ramps per cycle + MS1 scans
\* (dia-PASEF) or number_of_slices + insert_ms_scan (diagonal-PASEF), and an
\* absent value counting as 0
C14_CycleTime ==
    pc = "loaded" =>
       \A i \in 1..Len(Segments) :
          (/\ ScansKnown(i) /\ ~IccOn(i)
           /\ AbsentOrNumeric(i, "IMS_imeX_RampTime")
           /\ AbsentOrNumeric(i, "Collision_QuenchTime_Set"))
          => Get(Segments[i].parameters, "calc_cycle_time")
               = Str(FormatSeconds(TotalScans(i) * (NumberOrZero(i, "IMS_imeX_RampTime")
                                      + NumberOrZero(i, "Collision_QuenchTime_Set"))))

\* a dia-PASEF segment with 3 ramps per cycle, 3 MS1 rows, a ramp time of 100 ms
\* and a quench time of 10 ms: 6 * 110 ms
C14_Witness ==
    /\ pc = "loaded"
    /\ doc.dia_store = Table(MixedDiaRows)
    /\ Segments[1].scan_mode_id = 9
    /\ Get(Unfiltered(1), "IMS_imeX_RampTime") = Str("100")
    /\ Get(Unfiltered(1), "Collision_QuenchTime_Set") = Str("10")
    /\ Get(Segments[1].parameters, "calc_cycle_time") = Str("0.66 s")

\* the scan counts of a dia-PASEF segment follow the row types of the table
CountsByRowType(i) ==
    /\ Get(Segments[i].parameters, "calc_ms1_scans") = IntVal(Cardinality(RowsOfType(0)))
    /\ RowsOfType(1) # {} =>
          Get(Segments[i].parameters, "calc_ramps")
            = IntVal(Max({doc.dia_store.rows[j].CycleId : j \in RowsOfType(1)}))

C17_StartBeforeEnd ==
    pc = "loaded" =>
       \A i \in 1..Len(Segments) :
          Segments[i].end_time < 0 \/ Segments[i].start_time <= Segments[i].end_time

\* the number of rows of Type 1 that cycle c holds, and the cycles of such rows
RowsOfCycle(c) == Cardinality({j \in RowsOfType(1) : doc.dia_store.rows[j].CycleId = c})
Cycles == {doc.dia_store.rows[j].CycleId : j \in RowsOfType(1)}

\* the row counts that the largest number of cycles share
ModalRowCounts ==
    {n \in {RowsOfCycle(c) : c \in Cycles} :
        \A m \in {RowsOfCycle(c) : c \in Cycles} :
           Cardinality({c \in Cycles : RowsOfCycle(c) = m})
             <= Cardinality({c \in Cycles : RowsOfCycle(c) = n})}

\* C21: calc_steps of a dia-PASEF segment is the most frequent number of rows
\* of Type 1 per CycleId, also when the cycles hold different numbers of rows
C21_ModalSteps ==
    pc = "loaded" =>
       \A i \in 1..Len(Segments) :
          (Segments[i].scan_mode_id = 9 /\ doc.dia_store.kind = "table"
           /\ RowsOfType(1) # {})
          => \E n \in ModalRowCounts : Get(Segments[i].parameters, "calc_steps") = IntVal(n)

\* C22: no derivation lets a data error escape: load fails only with one of its
\* three documented errors, a ramp count that is not a number gives the cycle
\* time "N/A", and a table whose Type column is not numeric gives "N/A" for
\* every dia-PASEF field
C22_NoErrorEscapes ==
    /\ pc = "failed" => error.type \in {"MethodFileNotFoundError", "ParsingError",
                                        "UnsupportedScanModeError"}
    /\ pc = "loaded" =>
          \A i \in 1..Len(Segments) :
             /\ (Segments[i].scan_mode_id = 6 /\ ~IccOn(i)
                 /\ ~AbsentOrNumeric(i, "MSMS_Pasef_NumRampsPerCycle"))
                   => Get(Segments[i].parameters, "calc_cycle_time") = Str("N/A")
             /\ (Segments[i].scan_mode_id = 9 /\ ~IccOn(i)
                 /\ doc.dia_store.kind = "text_table" /\ "Type" \in doc.dia_store.text_columns)
                   => \A k \in DiaFields : Get(Segments[i].parameters, k) = Str("N/A")

\* C23: in every loaded segment whose IMS_imeX_DutyCycleLock is "1" and whose
\* ion-current control is off, IMS_imeX_AccumulationTime equals
\* IMS_imeX_RampTime, also when the ramp time is absent
C23_DutyCycleLock ==
    pc = "loaded" =>
       \A i \in 1..Len(Segments) :
          (Get(Unfiltered(i), "IMS_imeX_DutyCycleLock") = Str("1") /\ ~IccOn(i))
          => Get(Unfiltered(i), "IMS_imeX_AccumulationTime")
               = Get(Unfiltered(i), "IMS_imeX_RampTime")

\* the method-level part of the document: the method element without its timetable
OutsideTimetable ==
    Method(SelectSeq(doc.method.children, LAMBDA e : e.tag # "timetable"))

\* p occurs in the scope of segment k and nowhere else in the document
OnlyInScope(k, p) ==
    /\ InOwnScope(k, p)
    /\ \A j \in 1..Len(SegmentElements(doc.method)) : j # k => ~InOwnScope(j, p)
    /\ FindPermname(OutsideTimetable, p) = NoElement
    /\ doc.instrument # NoElement => FindPermname(doc.instrument, p) = NoElement

\* C24: in a file with segment elements, a parameter that occurs only inside the
\* scope of segment k is absent from the mapping of every segment before k
C24_NoBackwardLeak ==
    (pc = "loaded" /\ Explicit) =>
       \A k \in 1..Len(Segments) :
          \A p \in Range(AllPermnames) :
             OnlyInScope(k, p) =>
                \A i \in 1..(k - 1) : p \notin DOMAIN Segments[i].parameters

\* the values the entries of the document's accumulation-time vector carry
RawAccumulation ==
    {Str(FindPermname(doc.method, "IMS_imeX_AccumulationTime").children[j].value[1]) :
        j \in 1..Len(FindPermname(doc.method, "IMS_imeX_AccumulationTime").children)}

\* C25: a segment whose effective IMSICC_Mode is "0" or absent never holds
\* "variable" for IMS_imeX_AccumulationTime or IMS_imeX_DutyCycleLock, and a
\* segment whose duty-cycle lock is off and whose ion-current control is off
\* holds an accumulation time of the document, not a ramp time forced on its
\* predecessor
C25_NoConditionalLeak ==
    (pc = "loaded" /\ FindPermname(doc.method, "IMS_imeX_AccumulationTime") # NoElement
     /\ FindPermname(doc.method, "IMS_imeX_AccumulationTime").children # <<>>) =>
       \A i \in 1..Len(Segments) :
          ~IccOn(i) =>
             /\ Get(Segments[i].parameters, "IMS_imeX_AccumulationTime") # Str("variable")
             /\ Get(Segments[i].parameters, "IMS_imeX_DutyCycleLock") # Str("variable")
             /\ (Get(Unfiltered(i), "IMS_imeX_DutyCycleLock") # Str("1")
                 /\ "IMS_imeX_AccumulationTime" \in DOMAIN Segments[i].parameters)
                   => Segments[i].parameters["IMS_imeX_AccumulationTime"] \in RawAccumulation

\* the index the effective driver value of segment i maps to
DriverIndex(i) == ime_x_mode_to_index(Get(Unfiltered(i), "IMS_imeX_Mode"))

\* C26: after load, the ramp time of every segment is the entry of the
\* document's ramp-time array at the index of that segment's own effective
\* IMS_imeX_Mode, also in a segment that overrides only the driver
C26_DrivenFollowsDriver ==
    (pc = "loaded" /\ FindPermname(doc.method, "IMS_imeX_RampTime") # NoElement) =>
       \A i \in 1..Len(Segments) :
          (DriverIndex(i) # NoIndex
           /\ DriverIndex(i) < Len(FindPermname(doc.method, "IMS_imeX_RampTime").children))
          => Get(Unfiltered(i), "IMS_imeX_RampTime")
               = AttrValue(FindPermname(doc.method, "IMS_imeX_RampTime")
                             .children[DriverIndex(i) + 1])

\* the calc_ keys the derivations of segment i can set: the fields of every scan
\* mode, then those of the segment's own mode
OwnCalcKeys(i) ==
    {"calc_scan_mode", "calc_segment_start_time", "calc_segment_end_time",
     "calc_advanced_ce_ramping_display_list", "calc_ce_ramping_start",
     "calc_ce_ramping_end", "calc_msms_stepping_display_list"}
    \cup (CASE Segments[i].scan_mode_id = 6 -> {"calc_cycle_time"}
            [] Segments[i].scan_mode_id = 9 -> DiaFields
            [] Segments[i].scan_mode_id = 11 /\ ~StoreFailed(doc.diag_store) -> DiagonalFields
            [] OTHER -> {})

\* C29: after load every calc_ key of a segment is one the segment's own
\* derivations set, with the segment's own workflow and start time in the common
\* fields; a calc_ field of the predecessor that the segment's scan mode does
\* not derive is absent
C29_CalcNotInherited ==
    pc = "loaded" =>
       \A i \in 1..Len(Segments) :
          /\ {k \in DOMAIN Segments[i].parameters : StartsWithCalc(k)} \subseteq OwnCalcKeys(i)
          /\ {k \in DOMAIN Unfiltered(i) : StartsWithCalc(k)} \subseteq OwnCalcKeys(i)
          /\ Get(Segments[i].parameters, "calc_scan_mode") = Str(Segments[i].workflow_name)
          /\ Get(Segments[i].parameters, "calc_segment_start_time")
               = Str(Format2f(Segments[i].start_time) \o " min")

\* an MS segment after a PASEF segment that holds a cycle time
C29_Witness ==
    /\ pc = "loaded" /\ Len(Segments) >= 2
    /\ Segments[1].scan_mode_id = 6
    /\ "calc_cycle_time" \in DOMAIN Segments[1].parameters
    /\ Segments[2].scan_mode_id = 0
    /\ "calc_cycle_time" \notin DOMAIN Segments[2].parameters
    /\ Get(Segments[2].parameters, "calc_scan_mode") = Str("MS")

NothingBuilt ==
    /\ pc = "failed" /\ Segments = <<>> /\ returned_params = <<>> /\ datasets = <<>>

\* C12: a folder without a method file ends the load with MethodFileNotFoundError,
\* a method file that is not well-formed or has no <method> element ends it with
\* ParsingError; in each case no segment was built and no Dataset is stored
C12_LoadErrors ==
    pc # "idle" =>
        /\ doc.file = "missing" =>
              NothingBuilt /\ error.type = "MethodFileNotFoundError"
        /\ (doc.file = "malformed" \/ (doc.file = "ok" /\ doc.method = NoElement)) =>
              NothingBuilt /\ error.type = "ParsingError"
        /\ (pc = "failed" /\ error.type \in {"MethodFileNotFoundError", "ParsingError"}) =>
              NothingBuilt /\ (doc.file # "ok" \/ doc.method = NoElement)

\* the load of a folder without a method file has failed
C12_Witness ==
    /\ doc.file = "missing" /\ pc = "failed"
    /\ error = MethodFileNotFoundError /\ datasets = <<>>
(***************************************************************************)
(* parse_additional_parameters on a loaded Dataset                         *)
(***************************************************************************)
MaxCalls == 2

\* segment.xml_scope_element
ScopeElement(segment) ==
    IF segment.xml_scope_element = 0 THEN doc.method
    ELSE SegmentElements(doc.method)[segment.xml_scope_element]

\* `last_segment_params = {}` before the loop over dataset.segments
CallSeedMutant(segments) ==
    IF segments = <<>> THEN EmptyDict ELSE segments[Len(segments)].parameters

CallSeed(segments) == EmptyDict

\* one pass of the loop: the segment with its mapping updated first with the
\* mapping of the segment before it, then with the newly resolved values
ReResolved(segment, last, all_params_to_check, ion_source) ==
    [segment EXCEPT !.parameters =
        Update(Update(@, last),
               parse_parameters_for_scope(ScopeElement(segment), doc.instrument,
                   all_params_to_check, PolarityString(ScopeElement(segment), last),
                   ion_source))]

RECURSIVE AddLoop(_, _, _, _, _)
\* `last_segment_params = segment.parameters.copy()`, then the rest of the loop
AddNext(done, segment, todo, all_params_to_check, ion_source) ==
    AddLoop(Append(done, segment), todo, segment.parameters, all_params_to_check,
            ion_source)

AddLoop(done, todo, last, all_params_to_check, ion_source) ==
    IF todo = <<>> THEN done
    ELSE AddNext(done, ReResolved(Head(todo), last, all_params_to_check, ion_source),
                 Tail(todo), all_params_to_check, ion_source)

\* the segments of the dataset after parse_additional_parameters
parse_additional_parameters(ds, additional_params_info, ion_source) ==
    IF additional_params_info = <<>> THEN ds.segments
    ELSE AddLoop(<<>>, ds.segments, CallSeed(ds.segments),
                 ds.default_params \o additional_params_info, ion_source)

\* what the parameter dialog may ask for: parameters outside the default views
AdditionalChoices ==
    {<<>>, <<"Calibration_MarkSegment">>, <<"Instrument_Model", "Calibration_MarkSegment">>}
SourceChoices == {"", "ESI"}

Stored(segments) == [dataset EXCEPT !.segments = segments]

\* _open_add_parameters_dialog: parse_additional_parameters on the loaded dataset,
\* which is the object the list of datasets holds
ParseAdditionalParameters ==
    /\ pc = "loaded"
    /\ Len(calls) < MaxCalls
    /\ \E additional \in AdditionalChoices, ion_source \in SourceChoices :
          /\ calls' = Append(calls, [additional_params_info |-> additional,
                                     ion_source |-> ion_source])
          /\ dataset' = Stored(parse_additional_parameters(dataset, additional, ion_source))
    /\ before_call' = dataset.segments
    /\ datasets' = <<dataset'>>
    /\ UNCHANGED <<doc, pc, seg_pos, last_end_time, last_segment_params, returned_params,
                   error, query, result, lookup, report>>

AddBaseChoices == {StdBase("6", "1", "0"), StdBase("9", "0", "1")}

AddSegmentChoices ==
    {<<>>,
     <<Param("IMS_imeX_DutyCycleLock", "1")>>,
     <<Param("Calibration_MarkSegment", "0"),
       Dependent("", "ESI", <<Param("Calibration_MarkSegment", "1")>>)>>}

AddContentSeqs == UNION {[1..n -> AddSegmentChoices] : n \in 0..MaxSegments}

InitAdd ==
    /\ \E base \in AddBaseChoices, content \in AddContentSeqs :
          doc = ContentFile(base, content,
                            Instrument(<<Param("Instrument_Model", "i1")>>))
    /\ pc = "idle"
    /\ IdleState

NextAdd == LoadImplicitSegment \/ LoadSeed \/ LoadSegment \/ LoadReturn
           \/ ParseAdditionalParameters

SpecAdd == InitAdd /\ [][NextAdd]_vars

LastCall == calls[Len(calls)]

\* C5: after a call of parse_additional_parameters every key a segment's mapping
\* held before the call is still there with the same value
C5_OnlyAddsKeys ==
    calls # <<>> =>
        \A i \in 1..Len(before_call) :
            \A k \in DOMAIN before_call[i].parameters :
                /\ k \in DOMAIN Segments[i].parameters
                /\ Segments[i].parameters[k] = before_call[i].parameters[k]

\* C6: a call of parse_additional_parameters that repeats the arguments of the
\* call before it leaves every segment's mapping as that call left it
C6_Idempotent ==
    (Len(calls) >= 2 /\ LastCall = calls[Len(calls) - 1]) => Segments = before_call

\* two equal calls on a dataset of several segments, asking for a parameter the
\* load had not kept, in a source context
C6_Witness ==
    /\ Len(calls) >= 2 /\ LastCall = calls[Len(calls) - 1]
    /\ LastCall.additional_params_info # <<>> /\ LastCall.ion_source = "ESI"
    /\ Len(Segments) >= 2
    /\ Get(Segments[2].parameters, "Calibration_MarkSegment") = Str("1")
    /\ Segments = before_call
\* the parameters some call of parse_additional_parameters has asked for
Requested == UNION {Range(calls[c].additional_params_info) : c \in 1..Len(calls)}

\* C18: after load and after every call of parse_additional_parameters, every
\* key of a segment's mapping is legitimate for that segment's workflow (the
\* __GENERAL__ list plus the workflow's list), a calc_ field, or a parameter
\* such a call has asked for
C18_WorkflowFilter ==
    pc = "loaded" =>
       \A i \in 1..Len(Segments) :
          \A k \in DOMAIN Segments[i].parameters :
             \/ k \in AllowedPermnames(Segments[i].workflow_name)
             \/ StartsWithCalc(k)
             \/ k \in Requested

\* ion-current control is on in the mapping segment i holds now
IccNow(i) == IccActive(Get(Segments[i].parameters, "IMSICC_Mode"))

\* C28: after load and any calls of parse_additional_parameters, a segment whose
\* IMSICC_Mode is non-zero holds "variable" for each of the three overridden keys
\* its mapping has, and a segment with the duty-cycle lock "1" and ion-current
\* control off holds an accumulation time equal to its ramp time
C28_OverridesSurvive ==
    (pc = "loaded" /\ calls # <<>>) =>
       \A i \in 1..Len(Segments) :
          /\ IccNow(i) =>
                \A k \in ConditionalKeys \cap DOMAIN Segments[i].parameters :
                   Segments[i].parameters[k] = Str("variable")
          /\ (~IccNow(i) /\ Get(Segments[i].parameters, "IMS_imeX_DutyCycleLock") = Str("1")
              /\ Get(Segments[i].parameters, "IMS_imeX_RampTime") # None)
                => Get(Segments[i].parameters, "IMS_imeX_AccumulationTime")
                     = Get(Segments[i].parameters, "IMS_imeX_RampTime")

\* ---------------------------------------------------------------------------
\* Dataset.get_parameter_value and the segment selection of the main window
\* ---------------------------------------------------------------------------

\* self.segments[target_index]: the position in the list, 0 for an IndexError.
\* A negative index counts from the end of the list
ListPosition(target_index, length) ==
    IF 0 <= target_index /\ target_index < length THEN target_index + 1
    ELSE IF -length <= target_index /\ target_index < 0 THEN length + target_index + 1
    ELSE 0

\* the index get_parameter_value addresses; segment_index <<>> is None
TargetIndex(ds, segment_index) ==
    IF segment_index = <<>> THEN ds.active_segment_index ELSE segment_index[1]

get_parameter_value(ds, permname, segment_index) ==
    IF ListPosition(TargetIndex(ds, segment_index), Len(ds.segments)) = 0 THEN None
    ELSE Get(ds.segments[ListPosition(TargetIndex(ds, segment_index),
                                      Len(ds.segments))].parameters, permname)

LookupPermnames == {"Mode_ScanMode", "IMS_imeX_Mode", "No_Such_Parameter"}
LookupIndexes == {<<>>} \cup {<<n>> : n \in -(MaxSegments + 1)..(MaxSegments + 1)}

\* a caller reads a value of the Dataset: of the Dataset as constructed, which has
\* no segment yet, or of the one load has returned
GetParameterValue ==
    /\ pc \in {"idle", "loaded"}
    /\ ~lookup.called
    /\ \E permname \in LookupPermnames, segment_index \in LookupIndexes :
          lookup' = [called |-> TRUE, permname |-> permname, segment_index |-> segment_index,
                     segments |-> dataset.segments,
                     active_segment_index |-> dataset.active_segment_index,
                     value |-> get_parameter_value(dataset, permname, segment_index)]
    /\ UNCHANGED <<doc, pc, dataset, seg_pos, last_end_time, last_segment_params,
                   returned_params, datasets, error, calls, before_call, query, result,
                   report>>

\* _on_segment_selected: the dropdown of a loaded dataset selects a segment
SelectSegment ==
    /\ pc = "loaded"
    /\ ~lookup.called
    /\ \E new_index \in -1..Len(dataset.segments) :
          /\ 0 <= new_index /\ new_index < Len(dataset.segments)
          /\ new_index # dataset.active_segment_index
          /\ dataset' = [dataset EXCEPT !.active_segment_index = new_index]
    /\ UNCHANGED <<doc, pc, seg_pos, last_end_time, last_segment_params, returned_params,
                   datasets, error, calls, before_call, query, result, lookup, report>>

LookupSegmentChoices == {<<>>, <<Param("IMS_imeX_Mode", "2")>>}
LookupContentSeqs == UNION {[1..n -> LookupSegmentChoices] : n \in 0..MaxSegments}

InitGet ==
    /\ \E content \in LookupContentSeqs :
          doc = ContentFile(StdBase("6", "0", "0"), content, NoElement)
    /\ pc = "idle"
    /\ IdleState

NextGet ==
    LoadImplicitSegment \/ LoadSeed \/ LoadSegment \/ LoadReturn \/ GetParameterValue
    \/ SelectSegment

SpecGet == InitGet /\ [][NextGet]_vars

\* the segment a call addresses existed when the call was made
Addressed(index) == 0 <= index /\ index < Len(lookup.segments)

\* C16: get_parameter_value returns None for every segment_index outside
\* 0..len(segments)-1, negative ones included, and for an empty segment list;
\* with segment_index None it reads the active segment; a parameter the
\* addressed segment does not hold gives None
C16_LookupTotal ==
    lookup.called =>
       /\ (lookup.segment_index # <<>> /\ ~Addressed(lookup.segment_index[1]))
             => lookup.value = None
       /\ lookup.segments = <<>> => lookup.value = None
       /\ (lookup.segment_index = <<>> /\ Addressed(lookup.active_segment_index))
             => lookup.value
                  = Get(lookup.segments[lookup.active_segment_index + 1].parameters,
                        lookup.permname)
       /\ (lookup.segment_index # <<>> /\ Addressed(lookup.segment_index[1]))
             => lookup.value
                  = Get(lookup.segments[lookup.segment_index[1] + 1].parameters,
                        lookup.permname)
\* ---------------------------------------------------------------------------
\* PlottingService.generate_plot_as_buffer and ReportGeneratorService
\* ---------------------------------------------------------------------------

\* segment.dia_windows_data of a dia-PASEF segment: "none" while it is None,
\* "empty" for pd.DataFrame(), "prepared" for df_prepared
dia_windows_data(store) ==
    IF store.kind \in {"missing", "unreadable"} THEN "none"
    ELSE IF store.rows = <<>> \/ (store.kind = "text_table" /\ "Type" \in store.text_columns)
    THEN "empty"
    ELSE "prepared"

\* segment.diagonal_pasef_data of a diagonal-PASEF segment: <<>> is None
diagonal_pasef_data(store) ==
    IF store.kind # "table" \/ store.rows = <<>> THEN <<>> ELSE <<store.rows[1]>>

\* the _draw_*_plot_figure methods: TRUE for a (fig, ax) pair, FALSE for None
draw_dia_plot_figure(segment) == dia_windows_data(doc.dia_store) = "prepared"

draw_diagonal_plot_figure(segment) ==
    /\ diagonal_pasef_data(doc.diag_store) # <<>>
    /\ Get(segment.parameters, "calc_im_start") # None
    /\ Get(segment.parameters, "calc_im_end") # None
    /\ diagonal_pasef_data(doc.diag_store)[1].slope # 0

draw_pasef_plot_figure(segment) ==
    /\ segment.pasef_polygon_data # NoPolygon
    /\ Len(segment.pasef_polygon_data.mass) = Len(segment.pasef_polygon_data.mobility)

\* `fig, _ = None`
UnpackError == [type |-> "TypeError", message |-> "cannot unpack non-iterable NoneType object"]

\* `fig, _ = self._draw_..._plot_figure(...)` and the rendering of fig
Unpacked(drawn) ==
    IF drawn THEN [error |-> NoError, png_buffer |-> TRUE]
    ELSE [error |-> UnpackError, png_buffer |-> FALSE]

\* generate_plot_as_buffer on the active segment, once it is found
PlotOfSegment(active_segment) ==
    IF active_segment.scan_mode_id = 9 /\ dia_windows_data(doc.dia_store) # "none"
    THEN Unpacked(draw_dia_plot_figure(active_segment))
    ELSE IF active_segment.scan_mode_id = 11 /\ diagonal_pasef_data(doc.diag_store) # <<>>
    THEN Unpacked(draw_diagonal_plot_figure(active_segment))
    ELSE IF active_segment.scan_mode_id = 6 /\ active_segment.pasef_polygon_data # NoPolygon
    THEN Unpacked(draw_pasef_plot_figure(active_segment))
    ELSE [error |-> NoError, png_buffer |-> FALSE]

\* generate_plot_as_buffer: [error, png_buffer], png_buffer FALSE is None
generate_plot_as_buffer(ds) ==
    IF ListPosition(ds.active_segment_index, Len(ds.segments)) = 0
    THEN [error |-> NoError, png_buffer |-> FALSE]
    ELSE PlotOfSegment(ds.segments[ListPosition(ds.active_segment_index, Len(ds.segments))])

\* `dataset.active_segment_index = index`
Activated(ds, index) == [ds EXCEPT !.active_segment_index = index]

\* _prepare_data_for_segment: the Dataset it leaves; every parameter row sets the
\* index, reads the value and puts the index back
prepare_data_for_segment(ds, segment_index) ==
    Activated(Activated(ds, segment_index), ds.active_segment_index)

\* the plot part of one pass of the segment loop of _generate_pdf: the index is
\* put back in the statement after generate_plot_as_buffer, which an exception skips
PlotStep(ds, index) ==
    IF generate_plot_as_buffer(Activated(ds, index)).error # NoError
    THEN [dataset |-> Activated(ds, index),
          error |-> generate_plot_as_buffer(Activated(ds, index)).error]
    ELSE [dataset |-> Activated(Activated(ds, index), ds.active_segment_index),
          error |-> NoError]

\* _generate_pdf: [dataset, error]
RECURSIVE generate_pdf(_, _, _)
generate_pdf(ds, selected_segment_indices, include_plot) ==
    IF selected_segment_indices = <<>> THEN [dataset |-> ds, error |-> NoError]
    ELSE IF include_plot /\ PlotStep(ds, Head(selected_segment_indices)).error # NoError
    THEN PlotStep(ds, Head(selected_segment_indices))
    ELSE generate_pdf(prepare_data_for_segment(ds, Head(selected_segment_indices)),
                      Tail(selected_segment_indices), include_plot)

\* _generate_csv: [dataset, error]
RECURSIVE generate_csv(_, _)
generate_csv(ds, selected_segment_indices) ==
    IF selected_segment_indices = <<>> THEN [dataset |-> ds, error |-> NoError]
    ELSE generate_csv(prepare_data_for_segment(ds, Head(selected_segment_indices)),
                      Tail(selected_segment_indices))

\* generate_report: [dataset, error]
generate_report(ds, selected_segment_indices, export_format, include_plot) ==
    IF export_format = "csv" THEN generate_csv(ds, selected_segment_indices)
    ELSE IF export_format = "pdf" THEN generate_pdf(ds, selected_segment_indices, include_plot)
    ELSE [dataset |-> ds, error |-> NoError]

\* [i for i, var in self.segment_selection_vars.items() if var.get()]
RECURSIVE Ascending(_)
Ascending(S) == IF S = {} THEN <<>> ELSE <<Min(S)>> \o Ascending(S \ {Min(S)})

\* _run_export_in_thread: the report window exports the segments that are ticked;
\* its except branch logs what generate_report raises
GenerateReport ==
    /\ pc = "loaded"
    /\ ~report.called
    /\ \E ticked \in SUBSET (0..(Len(dataset.segments) - 1)),
          export_format \in {"csv", "pdf"}, include_plot \in BOOLEAN :
          /\ dataset' = generate_report(dataset, Ascending(ticked), export_format,
                                        include_plot).dataset
          /\ report' = [called |-> TRUE, export_format |-> export_format,
                        include_plot |-> include_plot,
                        selected_segment_indices |-> Ascending(ticked),
                        error |-> generate_report(dataset, Ascending(ticked), export_format,
                                                  include_plot).error]
    /\ UNCHANGED <<doc, pc, seg_pos, last_end_time, last_segment_params, returned_params,
                   datasets, error, calls, before_call, query, result, lookup>>

\* the polygon vectors of a PASEF method: none, of equal length, of unequal length
ReportPolygons ==
    {<<>>,
     <<ParamEntries("IMS_PolygonFilter_Mass", <<<<"100">>, <<"150">>>>),
       ParamEntries("IMS_PolygonFilter_Mobility", <<<<"1">>, <<"2">>>>)>>,
     <<ParamEntries("IMS_PolygonFilter_Mass", <<<<"100">>, <<"150">>>>),
       ParamEntries("IMS_PolygonFilter_Mobility", <<<<"1">>>>)>>}
ReportDiaStores == {MissingStore, Table(<<>>), Table(ExampleDiaRows)}
ReportDiagStores == {MissingStore, Table(<<TemplateRow(1, 4, 25, 1, 0, 100)>>)}

\* n segments that override nothing
PlainSegments(n) == [i \in 1..n |-> <<>>]

InitReport ==
    /\ \E n \in 0..MaxSegments :
          \/ \E polygon \in ReportPolygons :
                doc = ContentFile(StdBase("6", "0", "0") \o polygon, PlainSegments(n),
                                  NoElement)
          \/ \E dia_store \in ReportDiaStores :
                doc = StoreFile(StdBase("9", "0", "0"), PlainSegments(n), dia_store,
                                MissingStore)
          \/ \E diag_store \in ReportDiagStores :
                doc = StoreFile(StdBase("11", "0", "0"), PlainSegments(n), MissingStore,
                                diag_store)
    /\ pc = "idle"
    /\ IdleState

NextReport ==
    LoadImplicitSegment \/ LoadSeed \/ LoadSegment \/ LoadReturn \/ SelectSegment
    \/ GenerateReport

SpecReport == InitReport /\ [][NextReport]_vars

\* C30: report generation leaves the selection untouched: whether generate_report
\* returns or raises (CSV or PDF, with or without plots, a failure inside plot
\* generation included), dataset.active_segment_index is what it was before the call
C30_SelectionUntouched ==
    [][(~report.called /\ report'.called)
          => dataset'.active_segment_index = dataset.active_segment_index]_vars
====
